---------------------------- MODULE Spec2Model ----------------------------
(***************************************************************************)
(* FPSZ procedural base generator: the generation entry point              *)
(* (generate_base), the room-graph layout (v4 InteriorLayout), the seeded  *)
(* layout generator (v7 LayoutGenerator), the level composer              *)
(* (TribesBaseGenerator) and the mesh builders of                          *)
(* fpsz_base_generator_v4.py, _v6.py and _v7.py.                           *)
(*                                                                         *)
(* Lengths are fixed-point integers: one length unit of the program is U   *)
(* model units.  Ratios (wall_taper, the 0.3 / 0.7 / 0.85 ... factors) are *)
(* per-mille integers and are applied with Mul.                            *)
(***************************************************************************)
EXTENDS Integers, Sequences, FiniteSets, TLC

VARIABLES
    pc,               \* where the run stands
    variant,          \* "v4", "v6" or "v7": whose code is running
    request,          \* the arguments of the call: style, seed, num_levels, kwargs
    cfg,              \* the Config object of the run
    pending,          \* kwargs items not yet looked at by the override loop
    rooms,            \* InteriorLayout.rooms
    room_id_counter,  \* InteriorLayout.room_id_counter
    level,            \* loop variable of the running per-level loop
    plan,             \* rest of the floor builder that is running
    layout,           \* LayoutGenerator's drawn choices
    rng,              \* LayoutGenerator.rng, the run's own stream
    draws,            \* what was drawn from rng, in order
    grng,             \* state of the process-wide random module
    parts,            \* mesh builders created by the run, in creation order
    collection,       \* the collection FPSZ_Generated_Base and its objects
    levels,           \* envelope and features computed per level
    ramps,            \* the ramps that reached the ramp builder, with their level
    log,              \* finished runs: what they were asked and what they chose
    calls             \* builder calls made on a mesh builder used on its own

vars == <<pc, variant, request, cfg, pending, rooms, room_id_counter, level,
          plan, layout, rng, draws, grng, parts, collection, levels, ramps,
          log, calls>>

---------------------------------------------------------------------------
(* Bounds of the model. *)

\* seeds offered to the entry point: 0 .. MaxSeed
MaxSeed == 3
\* num_levels arguments offered to the entry point: 1 .. MaxLevelsArg
MaxLevelsArg == 7
\* distinct finished runs a process remembers before it stops calling
MaxRuns == 3
\* seeds offered to the repeated calls: 0 .. MaxRunSeed
MaxRunSeed == 1

---------------------------------------------------------------------------
(* Fixed-point arithmetic. *)

U == 2 * 100
PerMille == 10 * 100

Mul(a, r) == (a * r) \div PerMille
Half(a) == a \div 2
Abs(a) == IF a < 0 THEN 0 - a ELSE a
Min(a, b) == IF a < b THEN a ELSE b
Max(a, b) == IF a > b THEN a ELSE b

\* 1 / tan(angle), per mille, for the angles the program uses
Cot(deg) == CASE deg = 28 -> 1881
              [] deg = 22 -> 2475
              [] deg = 20 -> 2747
              [] OTHER -> 1000

SeqToSet(s) == {s[i] : i \in 1..Len(s)}

---------------------------------------------------------------------------
(* Config: the dataclass defaults of each file. *)

ConfigV4 ==
    [ base_width |-> 70 * U, base_depth |-> 70 * U, base_height |-> 55 * U,
      wall_taper |-> 250,
      wall_thickness |-> 3 * U, floor_thickness |-> 1 * U,
      interior_wall_thickness |-> Half(3 * U),
      num_levels |-> 4, level_height |-> 12 * U,
      rooms_per_level |-> 4,
      main_hall_size |-> <<24 * U, 24 * U>>,
      corridor_width |-> 8 * U, corridor_length |-> 16 * U,
      side_chamber_size |-> <<14 * U, 12 * U>>,
      equipment_room_size |-> <<8 * U, 8 * U>>,
      doorway_width |-> 6 * U, doorway_height |-> 8 * U,
      ramp_width |-> 6 * U, ramp_angle |-> 28,
      num_entrances |-> 2, entrance_width |-> 10 * U, entrance_height |-> 10 * U,
      style |-> "pyramid", seed |-> 42 ]

ConfigV6 ==
    [ base_width |-> 80 * U, base_depth |-> 80 * U, base_height |-> 60 * U,
      wall_taper |-> 200,
      exterior_wall_thickness |-> 4 * U,
      interior_wall_thickness |-> Half(3 * U),
      floor_thickness |-> Half(3 * U),
      num_levels |-> 4, level_height |-> 14 * U,
      trim_height |-> Mul(U, 800), trim_inset |-> Mul(U, 300),
      panel_depth |-> Mul(U, 500),
      column_width |-> 3 * U,
      column_base_height |-> Half(3 * U), column_cap_height |-> 1 * U,
      platform_edge_height |-> Mul(U, 600), platform_edge_width |-> Mul(U, 400),
      doorway_width |-> 8 * U, doorway_height |-> 10 * U,
      ramp_width |-> 8 * U, ramp_edge_height |-> Mul(U, 500),
      skylight_size |-> 4 * U, skylight_depth |-> 1 * U,
      atrium_width |-> 28 * U, atrium_depth |-> 28 * U,
      style |-> "pyramid", seed |-> 42 ]

ConfigV7 ==
    [ base_width |-> 80 * U, base_depth |-> 80 * U, base_height |-> 60 * U,
      wall_taper |-> 200,
      exterior_wall_thickness |-> 4 * U,
      interior_wall_thickness |-> Half(3 * U),
      floor_thickness |-> Half(3 * U),
      num_levels |-> 4, level_height |-> 14 * U,
      trim_height |-> Mul(U, 800), trim_inset |-> Mul(U, 300),
      column_width |-> 3 * U,
      platform_edge_height |-> Mul(U, 600),
      doorway_width |-> 8 * U, doorway_height |-> 10 * U,
      ramp_width |-> 8 * U,
      atrium_width |-> 28 * U, atrium_depth |-> 28 * U,
      style |-> "pyramid", seed |-> 42 ]

Config(v) ==
    CASE v = "v4" -> ConfigV4
      [] v = "v6" -> ConfigV6
      [] OTHER -> ConfigV7

\* style_map.get(style.lower(), BaseStyle.PYRAMID)
StyleMap(style) == IF style \in {"pyramid", "stepped", "tower"} THEN style
                   ELSE "pyramid"

\* cfg.num_levels = max(2, min(6, num_levels))
ClampLevels(n) == Max(2, Min(6, n))

\* cfg.base_height = cfg.num_levels * cfg.level_height + 8
BaseHeightFor(c) == c.num_levels * c.level_height + 8 * U

\* hasattr(cfg, key)
HasAttr(c, key) == key \in DOMAIN c

\* a setattr that, on top of setting the field, derives base_height again
SetAttrRederive(c, key, value) ==
    LET c1 == [c EXCEPT ![key] = value]
    IN  [c1 EXCEPT !.base_height = BaseHeightFor(c1)]

\* setattr(cfg, key, value)
SetAttr(c, key, value) == [c EXCEPT ![key] = value]

\* one pass of:  for key, value in kwargs.items(): if hasattr: setattr
Override(c, item) ==
    IF HasAttr(c, item[1]) THEN SetAttr(c, item[1], item[2]) ELSE c

\* the thickness of the exterior wall, under the name each file gives it
ExteriorThickness(c) ==
    IF "wall_thickness" \in DOMAIN c THEN c.wall_thickness
    ELSE c.exterior_wall_thickness

---------------------------------------------------------------------------
(* The envelope at a level's floor:  z = level * level_height +            *)
(* floor_thickness; height_ratio = z / base_height; taper = base_height *  *)
(* wall_taper * height_ratio; available = footprint - 2*thickness -        *)
(* 2*taper.                                                                *)

FloorZ(c, lvl) == lvl * c.level_height + c.floor_thickness

\* the inset with its sign turned: the walls lean outwards
TaperAtOutwards(c, z) == 0 - ((Mul(c.base_height, c.wall_taper) * z) \div c.base_height)

TaperAt(c, z) == (Mul(c.base_height, c.wall_taper) * z) \div c.base_height

AvailableWidth(c, z) == c.base_width - ExteriorThickness(c) * 2 - TaperAt(c, z) * 2

AvailableDepth(c, z) == c.base_depth - ExteriorThickness(c) * 2 - TaperAt(c, z) * 2

---------------------------------------------------------------------------
(* InteriorLayout (v4): the room graph.                                    *)
(*                                                                         *)
(* A floor builder is a straight line of steps; each step creates at most  *)
(* one room (add) and then appends connection ids (appends, a sequence of  *)
(* <<a, b>>: rooms[a].connections.append(rooms[b].id), a and b positions   *)
(* in the room list).                                                      *)

RoomSpec(t, x, y, z, w, d, h, lvl) ==
    [room_type |-> t, x |-> x, y |-> y, z |-> z,
     width |-> w, depth |-> d, height |-> h, level |-> lvl]

\* _add_room without the increment of room_id_counter
add_room_same_id(rs, counter, s) ==
    [rooms |-> Append(rs, [id |-> counter, room_type |-> s.room_type,
                           x |-> s.x, y |-> s.y, z |-> s.z,
                           width |-> s.width, depth |-> s.depth,
                           height |-> s.height, level |-> s.level,
                           connections |-> <<>>]),
     room_id_counter |-> counter]

\* Room(id=..., ..., connections=[]) appended to rooms; counter += 1
add_room(rs, counter, s) ==
    [rooms |-> Append(rs, [id |-> counter, room_type |-> s.room_type,
                           x |-> s.x, y |-> s.y, z |-> s.z,
                           width |-> s.width, depth |-> s.depth,
                           height |-> s.height, level |-> s.level,
                           connections |-> <<>>]),
     room_id_counter |-> counter + 1]

\* a.connections.append(b.id)
Connect(rs, a, b) ==
    [rs EXCEPT ![a].connections = Append(rs[a].connections, rs[b].id)]

RECURSIVE ApplyAppends(_, _)
ApplyAppends(rs, apps) ==
    IF apps = <<>> THEN rs
    ELSE ApplyAppends(Connect(rs, Head(apps)[1], Head(apps)[2]), Tail(apps))

\* a.connections.append(b.id) alone: the second append is lost
BothOneWay(a, b) == << <<a, b>> >>

\* a.connections.append(b.id); b.connections.append(a.id)
Both(a, b) == << <<a, b>>, <<b, a>> >>

Step(spec, apps) == [add |-> <<spec>>, appends |-> apps]
ConnectOnly(apps) == [add |-> <<>>, appends |-> apps]

\* _generate_ground_floor; base is the number of rooms created before it
GroundFloorPlan(c, z, avail_w, avail_d, lvl, base) ==
    LET hall_w == c.main_hall_size[1]
        hall_d == c.main_hall_size[2]
        h1 == c.level_height - 1 * U
        h2 == c.level_height - 2 * U
        main_hall == base + 1
        corridor_n == base + 2
        corridor_s == base + 3
        chamber_e == base + 4
        chamber_w == base + 5
        equip_n == base + 6
        equip_s == base + 7
        cy_n == Half(hall_d) + Half(c.corridor_length)
        ch_x == Half(hall_w) + Half(c.side_chamber_size[1]) + 2 * U
        eq_y == Half(hall_d) + c.corridor_length
                + Half(c.equipment_room_size[2]) + 1 * U
        corner_offset == Half(hall_w) + 8 * U
        corners == << <<corner_offset, corner_offset>>,
                      <<corner_offset, 0 - corner_offset>>,
                      <<0 - corner_offset, corner_offset>>,
                      <<0 - corner_offset, 0 - corner_offset>> >>
        Fits(p) == /\ Abs(p[1]) < Half(avail_w) - 4 * U
                   /\ Abs(p[2]) < Half(avail_d) - 4 * U
        kept == SelectSeq(corners, Fits)
        CornerStep(k) ==
            Step(RoomSpec("equipment", kept[k][1], kept[k][2], z,
                          Mul(c.equipment_room_size[1], 900),
                          Mul(c.equipment_room_size[2], 900), h2, lvl),
                 IF kept[k][1] > 0 THEN Both(chamber_e, equip_s + k)
                 ELSE Both(chamber_w, equip_s + k))
    IN  << Step(RoomSpec("main_hall", 0, 0, z, hall_w, hall_d, h1, lvl), <<>>),
           Step(RoomSpec("corridor", 0, cy_n, z,
                         c.corridor_width, c.corridor_length, h1, lvl),
                Both(main_hall, corridor_n)),
           Step(RoomSpec("corridor", 0, 0 - cy_n, z,
                         c.corridor_width, c.corridor_length, h1, lvl),
                Both(main_hall, corridor_s)),
           Step(RoomSpec("side_chamber", ch_x, 0, z,
                         c.side_chamber_size[1], c.side_chamber_size[2], h1, lvl),
                Both(main_hall, chamber_e)),
           Step(RoomSpec("side_chamber", 0 - ch_x, 0, z,
                         c.side_chamber_size[1], c.side_chamber_size[2], h1, lvl),
                Both(main_hall, chamber_w)),
           Step(RoomSpec("equipment", 0, eq_y, z,
                         c.equipment_room_size[1], c.equipment_room_size[2], h2, lvl),
                Both(corridor_n, equip_n)),
           Step(RoomSpec("equipment", 0, 0 - eq_y, z,
                         c.equipment_room_size[1], c.equipment_room_size[2], h2, lvl),
                Both(corridor_s, equip_s)) >>
        \o [k \in 1..Len(kept) |-> CornerStep(k)]

\* the ring of a middle floor left open: the south corridor is joined to
\* neither the east nor the west one
RingAppendsOpen(n, s, e, w) == << <<n, e>>, <<n, w>>, <<e, n>>, <<w, n>> >>

\* the four extend calls that close the ring of a middle floor
RingAppends(n, s, e, w) ==
    << <<n, e>>, <<n, w>>, <<s, e>>, <<s, w>>,
       <<e, n>>, <<e, s>>, <<w, n>>, <<w, s>> >>

\* a side chamber ch off ring corridors a and b:
\* a.append(ch); b.append(ch); ch.extend([a, b])
ChamberAppends(a, b, ch) == << <<a, ch>>, <<b, ch>>, <<ch, a>>, <<ch, b>> >>

\* _generate_middle_floor
MiddleFloorPlan(c, z, avail_w, avail_d, lvl, base) ==
    LET atrium_size == Min(16 * U, Mul(avail_w, 300))
        ring_width == 7 * U
        ring_inner == Half(atrium_size) + 1 * U
        ring_outer == ring_inner + ring_width
        mid == ring_inner + Half(ring_width)
        long == Mul(ring_outer, 1800)
        h1 == c.level_height - 1 * U
        corridor_n == base + 1
        corridor_s == base + 2
        corridor_e == base + 3
        corridor_w == base + 4
        chamber_offset == ring_outer + Half(c.side_chamber_size[1]) + 2 * U
        off == Mul(chamber_offset, 700)
        cw == Mul(c.side_chamber_size[1], 850)
        cd == Mul(c.side_chamber_size[2], 850)
        ring ==
          << Step(RoomSpec("corridor", 0, mid, z, long, ring_width, h1, lvl), <<>>),
             Step(RoomSpec("corridor", 0, 0 - mid, z, long, ring_width, h1, lvl), <<>>),
             Step(RoomSpec("corridor", mid, 0, z, ring_width, long, h1, lvl), <<>>),
             Step(RoomSpec("corridor", 0 - mid, 0, z, ring_width, long, h1, lvl), <<>>),
             ConnectOnly(RingAppends(corridor_n, corridor_s, corridor_e, corridor_w)) >>
        chambers ==
          << Step(RoomSpec("side_chamber", off, off, z, cw, cd, h1, lvl),
                  ChamberAppends(corridor_n, corridor_e, base + 5)),
             Step(RoomSpec("side_chamber", 0 - off, off, z, cw, cd, h1, lvl),
                  ChamberAppends(corridor_n, corridor_w, base + 6)),
             Step(RoomSpec("side_chamber", off, 0 - off, z, cw, cd, h1, lvl),
                  ChamberAppends(corridor_s, corridor_e, base + 7)),
             Step(RoomSpec("side_chamber", 0 - off, 0 - off, z, cw, cd, h1, lvl),
                  ChamberAppends(corridor_s, corridor_w, base + 8)) >>
    IN  IF chamber_offset < Half(avail_w) - 3 * U THEN ring \o chambers ELSE ring

\* _generate_top_floor
TopFloorPlan(c, z, avail_w, avail_d, lvl, base) ==
    LET cmd_size == Min(18 * U, Mul(avail_w, 500))
        balcony_width == 5 * U
        balcony_length == 12 * U
        command_room == base + 1
        has_bal == Half(cmd_size) + balcony_length < Half(avail_d) - 2 * U
        nbal == IF has_bal THEN 2 ELSE 0
        bal_y == Half(cmd_size) + Half(balcony_length)
        alcove_offset == Half(cmd_size) + 6 * U
        h1 == c.level_height - 1 * U
        cmd == << Step(RoomSpec("main_hall", 0, 0, z, cmd_size, cmd_size,
                                c.level_height, lvl), <<>>) >>
        balconies ==
          << Step(RoomSpec("balcony", 0, bal_y, z, Mul(balcony_width, 1500),
                           balcony_length, c.level_height, lvl),
                  Both(command_room, base + 2)),
             Step(RoomSpec("balcony", 0, 0 - bal_y, z, Mul(balcony_width, 1500),
                           balcony_length, c.level_height, lvl),
                  Both(command_room, base + 3)) >>
        alcoves ==
          << Step(RoomSpec("equipment", alcove_offset, 0, z, 8 * U, 10 * U, h1, lvl),
                  Both(command_room, base + 2 + nbal)),
             Step(RoomSpec("equipment", 0 - alcove_offset, 0, z, 8 * U, 10 * U, h1, lvl),
                  Both(command_room, base + 3 + nbal)) >>
    IN  cmd \o (IF has_bal THEN balconies ELSE <<>>)
            \o (IF alcove_offset < Half(avail_w) - 4 * U THEN alcoves ELSE <<>>)

\* _generate_level: which floor builder runs for a level
LevelPlan(c, lvl, base) ==
    LET z == FloorZ(c, lvl)
        available_width == AvailableWidth(c, z)
        available_depth == AvailableDepth(c, z)
    IN  IF lvl = 0
          THEN GroundFloorPlan(c, z, available_width, available_depth, lvl, base)
        ELSE IF lvl = c.num_levels - 1
          THEN TopFloorPlan(c, z, available_width, available_depth, lvl, base)
        ELSE MiddleFloorPlan(c, z, available_width, available_depth, lvl, base)

\* the body of the two loops with the distance tested in x alone
VerticalPairXOnly(rs, i, j) ==
    IF /\ rs[j].level = rs[i].level + 1
       /\ Abs(rs[i].x - rs[j].x) < 8 * U
    THEN LET r1 == IF \E k \in 1..Len(rs[i].connections) :
                          rs[i].connections[k] = rs[j].id
                   THEN rs ELSE Connect(rs, i, j)
         IN  IF \E k \in 1..Len(r1[j].connections) :
                   r1[j].connections[k] = r1[i].id
             THEN r1 ELSE Connect(r1, j, i)
    ELSE rs

\* the body of the two loops of _create_vertical_connections for the pair
\* (room, other) = (rs[i], rs[j])
VerticalPair(rs, i, j) ==
    IF /\ rs[j].level = rs[i].level + 1
       /\ Abs(rs[i].x - rs[j].x) < 8 * U
       /\ Abs(rs[i].y - rs[j].y) < 8 * U
    THEN LET r1 == IF \E k \in 1..Len(rs[i].connections) :
                          rs[i].connections[k] = rs[j].id
                   THEN rs ELSE Connect(rs, i, j)
         IN  IF \E k \in 1..Len(r1[j].connections) :
                   r1[j].connections[k] = r1[i].id
             THEN r1 ELSE Connect(r1, j, i)
    ELSE rs

RECURSIVE VerticalInner(_, _, _)
\* the inner loop:  for other in self.rooms, from the j-th on
VerticalInner(rs, i, j) ==
    IF j > Len(rs) THEN rs
    ELSE VerticalInner(VerticalPair(rs, i, j), i, j + 1)

RECURSIVE VerticalFrom(_, _)
\* the outer loop:  for room in self.rooms, from the i-th on
VerticalFrom(rs, i) ==
    IF i > Len(rs) THEN rs
    ELSE VerticalFrom(VerticalInner(rs, i, 1), i + 1)

\* _create_vertical_connections
create_vertical_connections(rs) == VerticalFrom(rs, 1)

---------------------------------------------------------------------------
(* The seeded pseudo-random stream (random.Random): a deterministic        *)
(* generator, here a linear congruential one.  A stream is its state; a    *)
(* draw advances it.                                                       *)

\* random.Random(seed), random.seed(seed)
Seeded(seed) == (seed * 7919 + 12345) % 32768

Advance(st) == (st * 25173 + 74) % 32768

\* index picked by rng.choice over n items / rng.randint(0, n - 1)
Pick(st, n) == Advance(st) % n

\* rng.uniform(a, b)
Uniform(st, a, b) == a + ((b - a) * (Advance(st) % 1024)) \div 1024

---------------------------------------------------------------------------
(* LayoutGenerator (v7). *)

CorridorConfigs == <<"cross", "T_north", "T_south", "L_ne", "L_sw", "H">>
CenterPlatform == <<TRUE, TRUE, FALSE>>
ColumnPatterns == <<"corners", "sides", "ring", "minimal">>
RampStyles == <<"spiral", "opposing", "central", "corner">>
BalconyConfigs == <<"full_ring", "opposing", "single", "corners">>
EntranceConfigs == <<"north_south", "all_sides", "single", "diagonal">>

\* the layout drawing from the process-wide generator as it finds it
LayoutStreamAmbient(seed, g) == g

\* the stream LayoutGenerator.__init__ draws from: its own, seeded from cfg.seed
\* (g is the state of the process-wide generator, which it does not use)
LayoutStream(seed, g) == Seeded(seed)

\* LayoutGenerator.__init__: seven draws, in this order
DrawLayout(s0) ==
    LET s1 == Advance(s0)
        s2 == Advance(s1)
        s3 == Advance(s2)
        s4 == Advance(s3)
        s5 == Advance(s4)
        s6 == Advance(s5)
        s7 == Advance(s6)
    IN  [ corridor_config |-> CorridorConfigs[Pick(s0, 6) + 1],
          has_center_platform |-> CenterPlatform[Pick(s1, 3) + 1],
          column_pattern |-> ColumnPatterns[Pick(s2, 4) + 1],
          ramp_style |-> RampStyles[Pick(s3, 4) + 1],
          balcony_config |-> BalconyConfigs[Pick(s4, 4) + 1],
          num_side_rooms |-> Pick(s5, 5),
          entrance_config |-> EntranceConfigs[Pick(s6, 4) + 1],
          rng |-> s7 ]

\* the names of the draws of __init__, in the order they are made
InitDraws == <<"corridor_config", "has_center_platform", "column_pattern",
               "ramp_style", "balcony_config", "num_side_rooms",
               "entrance_config">>

\* get_corridor_endpoints
get_corridor_endpoints(lay) ==
    CASE lay.corridor_config = "cross" -> <<"north", "south", "east", "west">>
      [] lay.corridor_config = "T_north" -> <<"north", "east", "west">>
      [] lay.corridor_config = "T_south" -> <<"south", "east", "west">>
      [] lay.corridor_config = "L_ne" -> <<"north", "east">>
      [] lay.corridor_config = "L_sw" -> <<"south", "west">>
      [] lay.corridor_config = "H" -> <<"north", "south">>
      [] OTHER -> <<>>

\* get_column_positions
get_column_positions(c, lay, z, avail_w, avail_d) ==
    LET offset_w == Half(avail_w) - c.column_width - 2 * U
        offset_d == Half(avail_d) - c.column_width - 2 * U
    IN  CASE lay.column_pattern = "corners" ->
               << <<offset_w, offset_d>>, <<offset_w, 0 - offset_d>>,
                  <<0 - offset_w, offset_d>>, <<0 - offset_w, 0 - offset_d>> >>
          [] lay.column_pattern = "sides" ->
               << <<offset_w, 0>>, <<0 - offset_w, 0>>,
                  <<0, offset_d>>, <<0, 0 - offset_d>> >>
          [] lay.column_pattern = "ring" ->
               << <<offset_w, offset_d>>, <<offset_w, 0 - offset_d>>,
                  <<0 - offset_w, offset_d>>, <<0 - offset_w, 0 - offset_d>>,
                  <<offset_w, 0>>, <<0 - offset_w, 0>> >>
          [] lay.column_pattern = "minimal" ->
               << <<offset_w, offset_d>>, <<0 - offset_w, 0 - offset_d>> >>
          [] OTHER -> <<>>

\* z_start of get_ramp_positions
RampZStart(c, lvl) == (lvl + 1) * c.level_height + c.floor_thickness

\* get_ramp_positions without its 'corner' branch: None for that style
get_ramp_positions_no_corner(c, lay, lvl) ==
    LET ramp_rise == c.level_height
        ramp_run == Mul(ramp_rise, Cot(28))
        hr == Half(ramp_run)
        z_start == RampZStart(c, lvl)
        z_end == z_start + ramp_rise
        offset == Half(c.atrium_width) - 6 * U
        dirs == << <<offset, 0 - hr, offset, hr>>,
                   <<0 - hr, offset, hr, offset>>,
                   <<0 - offset, hr, 0 - offset, 0 - hr>>,
                   <<hr, 0 - offset, 0 - hr, 0 - offset>> >>
        d == dirs[(lvl % 4) + 1]
    IN  CASE lay.ramp_style = "spiral" ->
               <<d[1], d[2], z_start, d[3], d[4], z_end>>
          [] lay.ramp_style = "opposing" ->
               IF lvl % 2 = 0
               THEN <<offset, 0 - hr, z_start, offset, hr, z_end>>
               ELSE <<0 - offset, hr, z_start, 0 - offset, 0 - hr, z_end>>
          [] lay.ramp_style = "central" ->
               IF lvl % 2 = 0
               THEN <<0, 0 - hr, z_start, 0, hr, z_end>>
               ELSE <<0, hr, z_start, 0, 0 - hr, z_end>>
          [] OTHER -> <<>>

\* get_ramp_positions whose opposing style keeps every ramp on the east side
get_ramp_positions_one_side(c, lay, lvl) ==
    LET ramp_rise == c.level_height
        ramp_run == Mul(ramp_rise, Cot(28))
        hr == Half(ramp_run)
        z_start == RampZStart(c, lvl)
        z_end == z_start + ramp_rise
        offset == Half(c.atrium_width) - 6 * U
        dirs == << <<offset, 0 - hr, offset, hr>>,
                   <<0 - hr, offset, hr, offset>>,
                   <<0 - offset, hr, 0 - offset, 0 - hr>>,
                   <<hr, 0 - offset, 0 - hr, 0 - offset>> >>
        d == dirs[(lvl % 4) + 1]
        corners == << <<1, 1>>, <<1, -1>>, <<-1, 1>>, <<-1, -1>> >>
        cx == corners[(lvl % 4) + 1][1]
        cy == corners[(lvl % 4) + 1][2]
        corner_offset == Mul(offset, 700)
    IN  CASE lay.ramp_style = "spiral" ->
               <<d[1], d[2], z_start, d[3], d[4], z_end>>
          [] lay.ramp_style = "opposing" ->
               <<offset, 0 - hr, z_start, offset, hr, z_end>>
          [] lay.ramp_style = "central" ->
               IF lvl % 2 = 0
               THEN <<0, 0 - hr, z_start, 0, hr, z_end>>
               ELSE <<0, hr, z_start, 0, 0 - hr, z_end>>
          [] lay.ramp_style = "corner" ->
               <<cx * corner_offset, cy * corner_offset - cy * hr, z_start,
                 cx * corner_offset, cy * corner_offset + cy * hr, z_end>>
          [] OTHER -> <<>>

\* get_ramp_positions: <<x1, y1, z_start, x2, y2, z_end>>, or <<>> for None
get_ramp_positions(c, lay, lvl) ==
    LET ramp_rise == c.level_height
        ramp_run == Mul(ramp_rise, Cot(28))
        hr == Half(ramp_run)
        z_start == RampZStart(c, lvl)
        z_end == z_start + ramp_rise
        offset == Half(c.atrium_width) - 6 * U
        dirs == << <<offset, 0 - hr, offset, hr>>,
                   <<0 - hr, offset, hr, offset>>,
                   <<0 - offset, hr, 0 - offset, 0 - hr>>,
                   <<hr, 0 - offset, 0 - hr, 0 - offset>> >>
        d == dirs[(lvl % 4) + 1]
        corners == << <<1, 1>>, <<1, -1>>, <<-1, 1>>, <<-1, -1>> >>
        cx == corners[(lvl % 4) + 1][1]
        cy == corners[(lvl % 4) + 1][2]
        corner_offset == Mul(offset, 700)
    IN  CASE lay.ramp_style = "spiral" ->
               <<d[1], d[2], z_start, d[3], d[4], z_end>>
          [] lay.ramp_style = "opposing" ->
               IF lvl % 2 = 0
               THEN <<offset, 0 - hr, z_start, offset, hr, z_end>>
               ELSE <<0 - offset, hr, z_start, 0 - offset, 0 - hr, z_end>>
          [] lay.ramp_style = "central" ->
               IF lvl % 2 = 0
               THEN <<0, 0 - hr, z_start, 0, hr, z_end>>
               ELSE <<0, hr, z_start, 0, 0 - hr, z_end>>
          [] lay.ramp_style = "corner" ->
               <<cx * corner_offset, cy * corner_offset - cy * hr, z_start,
                 cx * corner_offset, cy * corner_offset + cy * hr, z_end>>
          [] OTHER -> <<>>

\* get_balcony_config without the return for a ring platform below 4
get_balcony_config_any_size(c, lay, lvl, avail_w, avail_d) ==
    LET platform_w == Half(avail_w - c.atrium_width) - 2 * U
        platform_d == Half(avail_d - c.atrium_depth) - 2 * U
        py == Half(avail_d) - Half(platform_d)
        px == Half(avail_w) - Half(platform_w)
        south == <<0, py, Mul(avail_w, 600), platform_d, "south">>
        north == <<0, 0 - py, Mul(avail_w, 600), platform_d, "north">>
        west == <<px, 0, platform_w, Mul(c.atrium_depth, 500), "west">>
        east == <<0 - px, 0, platform_w, Mul(c.atrium_depth, 500), "east">>
        corner_size == Mul(Min(platform_w, platform_d), 800)
        cpx == Mul(px, 800)
        cpy == Mul(py, 800)
    IN       CASE lay.balcony_config = "full_ring" -> <<south, north, west, east>>
               [] lay.balcony_config = "opposing" ->
                    IF lvl % 2 = 0 THEN <<south, north>> ELSE <<west, east>>
               [] lay.balcony_config = "single" ->
                    << <<south, north, west, east>>[(lvl % 4) + 1] >>
               [] lay.balcony_config = "corners" ->
                    << <<cpx, cpy, corner_size, corner_size, "south">>,
                       <<0 - cpx, cpy, corner_size, corner_size, "south">>,
                       <<cpx, 0 - cpy, corner_size, corner_size, "north">>,
                       <<0 - cpx, 0 - cpy, corner_size, corner_size, "north">> >>
               [] OTHER -> <<>>

\* get_balcony_config: a sequence of <<x, y, w, d, open_side>>
get_balcony_config(c, lay, lvl, avail_w, avail_d) ==
    LET platform_w == Half(avail_w - c.atrium_width) - 2 * U
        platform_d == Half(avail_d - c.atrium_depth) - 2 * U
        py == Half(avail_d) - Half(platform_d)
        px == Half(avail_w) - Half(platform_w)
        south == <<0, py, Mul(avail_w, 600), platform_d, "south">>
        north == <<0, 0 - py, Mul(avail_w, 600), platform_d, "north">>
        west == <<px, 0, platform_w, Mul(c.atrium_depth, 500), "west">>
        east == <<0 - px, 0, platform_w, Mul(c.atrium_depth, 500), "east">>
        corner_size == Mul(Min(platform_w, platform_d), 800)
        cpx == Mul(px, 800)
        cpy == Mul(py, 800)
    IN  IF platform_w < 4 * U \/ platform_d < 4 * U THEN <<>>
        ELSE CASE lay.balcony_config = "full_ring" -> <<south, north, west, east>>
               [] lay.balcony_config = "opposing" ->
                    IF lvl % 2 = 0 THEN <<south, north>> ELSE <<west, east>>
               [] lay.balcony_config = "single" ->
                    << <<south, north, west, east>>[(lvl % 4) + 1] >>
               [] lay.balcony_config = "corners" ->
                    << <<cpx, cpy, corner_size, corner_size, "south">>,
                       <<0 - cpx, cpy, corner_size, corner_size, "south">>,
                       <<cpx, 0 - cpy, corner_size, corner_size, "north">>,
                       <<0 - cpx, 0 - cpy, corner_size, corner_size, "north">> >>
               [] OTHER -> <<>>

\* get_entrance_positions whose diagonal configuration opens the south side
\* twice
get_entrance_positions_south_twice(c, lay) ==
    LET entrance_z == Mul(c.level_height, 350)
        taper == TaperAt(c, entrance_z)
        wall_d == Half(c.base_depth) - taper
        wall_w == Half(c.base_width) - taper
        ramp_len == Mul(entrance_z, Cot(20))
        south == <<0, 0 - (wall_d + ramp_len), 0, 0, 0 - wall_d + 5 * U, entrance_z, "south">>
        north == <<0, wall_d + ramp_len, 0, 0, wall_d - 5 * U, entrance_z, "north">>
        west == <<0 - (wall_w + ramp_len), 0, 0, 0 - wall_w + 5 * U, 0, entrance_z, "west">>
        east == <<wall_w + ramp_len, 0, 0, wall_w - 5 * U, 0, entrance_z, "east">>
    IN  CASE lay.entrance_config = "north_south" -> <<south, north>>
          [] lay.entrance_config = "all_sides" -> <<south, north, west, east>>
          [] lay.entrance_config = "single" -> <<south>>
          [] lay.entrance_config = "diagonal" -> <<south, south>>
          [] OTHER -> <<>>

\* get_entrance_positions: a sequence of <<x1, y1, z1, x2, y2, z2, direction>>
get_entrance_positions(c, lay) ==
    LET entrance_z == Mul(c.level_height, 350)
        taper == TaperAt(c, entrance_z)
        wall_d == Half(c.base_depth) - taper
        wall_w == Half(c.base_width) - taper
        ramp_len == Mul(entrance_z, Cot(20))
        south == <<0, 0 - (wall_d + ramp_len), 0, 0, 0 - wall_d + 5 * U, entrance_z, "south">>
        north == <<0, wall_d + ramp_len, 0, 0, wall_d - 5 * U, entrance_z, "north">>
        west == <<0 - (wall_w + ramp_len), 0, 0, 0 - wall_w + 5 * U, 0, entrance_z, "west">>
        east == <<wall_w + ramp_len, 0, 0, wall_w - 5 * U, 0, entrance_z, "east">>
    IN  CASE lay.entrance_config = "north_south" -> <<south, north>>
          [] lay.entrance_config = "all_sides" -> <<south, north, west, east>>
          [] lay.entrance_config = "single" -> <<south>>
          [] lay.entrance_config = "diagonal" -> <<south, east>>
          [] OTHER -> <<>>

---------------------------------------------------------------------------
(* MeshBuilder: a mesh part is a named accumulator; geom lists what the    *)
(* builder calls appended, each <<kind, arguments...>>.  A call that       *)
(* returns before creating any vertex appends nothing.                     *)

NewPart(name) == [name |-> name, geom |-> <<>>, finalized |-> FALSE]

\* MeshBuilder.finalize: the part becomes an object of the collection
Finalized(p) == [p EXCEPT !.finalized = TRUE]

\* the epsilon 0.01 of add_ramp and add_wall_with_trim
Eps == Mul(U, 10)

RECURSIVE ISqrtIn(_, _, _)
ISqrtIn(n, lo, hi) ==
    IF lo >= hi THEN lo
    ELSE LET mid == (lo + hi + 1) \div 2
         IN  IF mid * mid <= n THEN ISqrtIn(n, mid, hi) ELSE ISqrtIn(n, lo, mid - 1)

\* math.sqrt(dx*dx + dy*dy)
Length(dx, dy) ==
    IF dx = 0 THEN Abs(dy)
    ELSE IF dy = 0 THEN Abs(dx)
    ELSE ISqrtIn(dx * dx + dy * dy, 0, Abs(dx) + Abs(dy))

\* add_ramp without the early return on a short run
add_ramp_unguarded(geom, x1, y1, z1, x2, y2, z2, width) ==
    Append(geom, <<"ramp", x1, y1, z1, x2, y2, z2, width>>)

\* add_ramp: nothing when the horizontal length is below 0.01
add_ramp(geom, x1, y1, z1, x2, y2, z2, width) ==
    IF Length(x2 - x1, y2 - y1) < Eps THEN geom
    ELSE Append(geom, <<"ramp", x1, y1, z1, x2, y2, z2, width>>)

\* add_wall_with_trim: nothing when the run is shorter than 0.01
add_wall_with_trim(geom, x1, y1, x2, y2, z, height) ==
    IF Length(x2 - x1, y2 - y1) < Eps THEN geom
    ELSE Append(geom, <<"wall", x1, y1, x2, y2, z, height>>)

add_platform(geom, x, y, z, w, d, thick) ==
    Append(geom, <<"platform", x, y, z, w, d, thick>>)

add_box(geom, x, y, z, w, d, h) == Append(geom, <<"box", x, y, z, w, d, h>>)

add_column(geom, x, y, z_base, z_top, width) ==
    Append(geom, <<"column", x, y, z_base, z_top, width>>)

add_balcony(geom, x, y, z, w, d, open_side) ==
    Append(geom, <<"balcony", x, y, z, w, d, open_side>>)

add_tapered_shell(geom, base_w, base_d, top_w, top_d, height, thick, z_base) ==
    Append(geom, <<"shell", base_w, base_d, top_w, top_d, height, thick, z_base>>)

\* _build_exterior (the same in v4 and v7): the shells of each style
ExteriorGeom(c) ==
    LET taper == Mul(c.base_height, c.wall_taper)
        top_w == c.base_width - taper * 2
        top_d == c.base_depth - taper * 2
        thick == ExteriorThickness(c)
        tier_h == c.base_height \div 4
        Tier(t) ==
            <<"shell", Mul(c.base_width, 1000 - t * 180),
              Mul(c.base_depth, 1000 - t * 180),
              Mul(c.base_width, 1000 - t * 180 - 40),
              Mul(c.base_depth, 1000 - t * 180 - 40),
              tier_h, thick, t * tier_h>>
        base_h == Mul(c.base_height, 350)
    IN  CASE c.style = "pyramid" ->
               add_tapered_shell(<<>>, c.base_width, c.base_depth, top_w, top_d,
                                 c.base_height, thick, 0)
          [] c.style = "stepped" -> [t \in 1..4 |-> Tier(t - 1)]
          [] c.style = "tower" ->
               add_tapered_shell(
                 add_tapered_shell(<<>>, Mul(c.base_width, 1200), Mul(c.base_depth, 1200),
                                   Mul(c.base_width, 1100), Mul(c.base_depth, 1100),
                                   base_h, thick, 0),
                 Mul(c.base_width, 600), Mul(c.base_depth, 600),
                 Mul(c.base_width, 500), Mul(c.base_depth, 500),
                 Mul(c.base_height, 650), thick, base_h)
          [] OTHER -> <<>>

---------------------------------------------------------------------------
(* The composer's per-part geometry. *)

RECURSIVE InteriorGeom(_, _, _)
\* the loop of v4 _build_interior over self.rooms
InteriorGeom(geom, rs, i) ==
    IF i > Len(rs) THEN geom
    ELSE LET r == rs[i]
             g == IF r.room_type = "corridor"
                    THEN Append(geom, <<"corridor", r.x, r.y, r.z, r.width, r.depth, r.height>>)
                  ELSE IF r.room_type = "balcony"
                    THEN add_platform(geom, r.x, r.y, r.z, r.width, r.depth, 1 * U)
                  ELSE Append(geom, <<"room", r.x, r.y, r.z, r.width, r.depth, r.height>>)
         IN  InteriorGeom(g, rs, i + 1)

\* v4 _build_ramps with the west ramp running the whole of ramp_run to either
\* side of the axis
RampV4LongWest(c, lvl) ==
    LET ramp_rise == c.level_height
        ramp_run == Mul(ramp_rise, Cot(c.ramp_angle))
        hr == Half(ramp_run)
        z_start == (lvl + 1) * c.level_height + c.floor_thickness
        z_end == z_start + ramp_rise
    IN  CASE lvl % 4 = 0 -> <<12 * U, 0 - hr, z_start, 12 * U, hr, z_end>>
          [] lvl % 4 = 1 -> <<0 - 12 * U, ramp_run, z_start, 0 - 12 * U, 0 - ramp_run, z_end>>
          [] lvl % 4 = 2 -> <<0 - hr, 12 * U, z_start, hr, 12 * U, z_end>>
          [] OTHER -> <<hr, 0 - 12 * U, z_start, 0 - hr, 0 - 12 * U, z_end>>

\* one pass of the loop of v4 _build_ramps: the arguments of its add_ramp call
RampV4(c, lvl) ==
    LET ramp_rise == c.level_height
        ramp_run == Mul(ramp_rise, Cot(c.ramp_angle))
        hr == Half(ramp_run)
        z_start == (lvl + 1) * c.level_height + c.floor_thickness
        z_end == z_start + ramp_rise
    IN  CASE lvl % 4 = 0 -> <<12 * U, 0 - hr, z_start, 12 * U, hr, z_end>>
          [] lvl % 4 = 1 -> <<0 - 12 * U, hr, z_start, 0 - 12 * U, 0 - hr, z_end>>
          [] lvl % 4 = 2 -> <<0 - hr, 12 * U, z_start, hr, 12 * U, z_end>>
          [] OTHER -> <<hr, 0 - 12 * U, z_start, 0 - hr, 0 - 12 * U, z_end>>

\* one pass of the loop of v6 _build_ramps: the end points of its ramp
RampV6(c, lvl) ==
    LET ramp_rise == c.level_height
        ramp_run == Mul(ramp_rise, Cot(28))
        hr == Half(ramp_run)
        z_start == (lvl + 1) * c.level_height + c.floor_thickness
        z_end == z_start + ramp_rise
        x == Half(c.atrium_width) - 6 * U
        y == Half(c.atrium_depth) - 6 * U
    IN  CASE lvl % 4 = 0 -> <<x, 0 - hr, z_start, x, hr, z_end>>
          [] lvl % 4 = 1 -> <<0 - x, hr, z_start, 0 - x, 0 - hr, z_end>>
          [] lvl % 4 = 2 -> <<0 - hr, y, z_start, hr, y, z_end>>
          [] OTHER -> <<hr, 0 - y, z_start, 0 - hr, 0 - y, z_end>>

\* one pass of the loop of _build_ramps: what it leaves in the ramp builder
PlaceRamp(v, c, lay, geom, lvl) ==
    LET ramp_data == CASE v = "v4" -> RampV4(c, lvl)
                       [] v = "v6" -> RampV6(c, lvl)
                       [] OTHER -> get_ramp_positions(c, lay, lvl)
    IN  IF ramp_data = <<>> THEN geom
        ELSE add_ramp(geom, ramp_data[1], ramp_data[2], ramp_data[3],
                      ramp_data[4], ramp_data[5], ramp_data[6], c.ramp_width)

\* v4 _build_entrances
EntrancesV4(c) ==
    LET entrance_z == Mul(c.level_height, 400)
        taper_at_entrance == TaperAt(c, entrance_z)
        wall_offset == Half(c.base_depth) - taper_at_entrance
        ramp_len == Mul(entrance_z, Cot(22))
        g1 == add_ramp(<<>>, 0, 0 - (wall_offset + ramp_len + 2 * U), 0,
                       0, 0 - wall_offset + 4 * U, entrance_z, c.entrance_width)
        g2 == add_platform(g1, 0, 0 - wall_offset + 6 * U, entrance_z,
                           c.entrance_width + 6 * U, 8 * U, 1 * U)
        g3 == add_ramp(g2, 0, wall_offset + ramp_len + 2 * U, 0,
                       0, wall_offset - 4 * U, entrance_z, c.entrance_width)
        g4 == add_platform(g3, 0, wall_offset - 6 * U, entrance_z,
                           c.entrance_width + 6 * U, 8 * U, 1 * U)
        side_offset == Half(c.base_width) - taper_at_entrance
        g5 == add_ramp(g4, side_offset + ramp_len + 2 * U, 0, 0,
                       side_offset - 4 * U, 0, entrance_z, Mul(c.entrance_width, 800))
        g6 == add_ramp(g5, 0 - (side_offset + ramp_len + 2 * U), 0, 0,
                       0 - (side_offset - 4 * U), 0, entrance_z,
                       Mul(c.entrance_width, 800))
    IN  IF c.num_entrances > 2 THEN g6 ELSE g4

RECURSIVE EntrancesFrom(_, _, _, _)
\* the loop of v7 _build_entrances: a ramp and its landing per entrance
EntrancesFrom(c, geom, es, i) ==
    IF i > Len(es) THEN geom
    ELSE LET e == es[i]
             g1 == add_ramp(geom, e[1], e[2], e[3], e[4], e[5], e[6], c.ramp_width + 2 * U)
             g2 == CASE e[7] = "south" ->
                          add_platform(g1, e[4], e[5] + 3 * U, e[6], c.ramp_width + 6 * U, 8 * U, 1 * U)
                     [] e[7] = "north" ->
                          add_platform(g1, e[4], e[5] - 3 * U, e[6], c.ramp_width + 6 * U, 8 * U, 1 * U)
                     [] e[7] = "east" ->
                          add_platform(g1, e[4] - 3 * U, e[5], e[6], 8 * U, c.ramp_width + 6 * U, 1 * U)
                     [] e[7] = "west" ->
                          add_platform(g1, e[4] + 3 * U, e[5], e[6], 8 * U, c.ramp_width + 6 * U, 1 * U)
                     [] OTHER -> g1
         IN  EntrancesFrom(c, g2, es, i + 1)

EntrancesV7(c, lay) == EntrancesFrom(c, <<>>, get_entrance_positions(c, lay), 1)

RECURSIVE ColumnsFrom(_, _, _, _, _, _, _)
\* for cx, cy in col_positions: add_column(cx * scale, cy * scale, z, z_top, width)
ColumnsFrom(geom, ps, i, scale, z, z_top, width) ==
    IF i > Len(ps) THEN geom
    ELSE ColumnsFrom(add_column(geom, Mul(ps[i][1], scale), Mul(ps[i][2], scale),
                                z, z_top, width),
                     ps, i + 1, scale, z, z_top, width)

\* v7 _build_main_hall; st is the layout's stream when it starts
MainHallGeom(c, lay, st) ==
    LET z == c.floor_thickness
        g0 == add_platform(<<>>, 0, 0, z, c.atrium_width, c.atrium_depth, c.floor_thickness)
        center_size == Uniform(st, 8 * U, 14 * U)
        center_h == Uniform(Advance(st), Half(3 * U), 3 * U)
        g1 == add_platform(g0, 0, 0, z + center_h, center_size, center_size, 1 * U)
        step_w == center_size + 2 * U
        StepY(i) == 0 - (Half(center_size) + 1 * U + i * 2 * U)
        steps == [k \in 1..6 |->
                    LET i == (k - 1) \div 2
                    IN  <<"box", 0, IF k % 2 = 1 THEN StepY(i) ELSE 0 - StepY(i),
                          z + i * (center_h \div 3), step_w, 2 * U, center_h \div 3>>]
        g2 == IF lay.has_center_platform THEN g1 \o steps ELSE g0
        col_positions == get_column_positions(c, lay, z, c.atrium_width, c.atrium_depth)
    IN  ColumnsFrom(g2, col_positions, 1, 1000, z, z + c.level_height * 2, c.column_width)

\* the stream after v7 _build_main_hall: two uniform draws when there is a
\* centre platform
MainHallStream(lay, st) ==
    IF lay.has_center_platform THEN Advance(Advance(st)) ELSE st

MainHallDraws(lay) ==
    IF lay.has_center_platform THEN <<"center_size", "center_h">> ELSE <<>>

RECURSIVE CorridorsFrom(_, _, _, _)
\* the loop of v7 _build_corridors: a floor and two trimmed walls per direction
CorridorsFrom(c, geom, ds, i) ==
    IF i > Len(ds) THEN geom
    ELSE LET z == c.floor_thickness
             corridor_w == 10 * U
             hw == Half(corridor_w)
             len_d == Half(c.base_depth - c.atrium_depth) - c.exterior_wall_thickness
             len_w == Half(c.base_width - c.atrium_width) - c.exterior_wall_thickness
             ad == Half(c.atrium_depth)
             aw == Half(c.atrium_width)
             g == CASE ds[i] = "north" ->
                         add_wall_with_trim(
                           add_wall_with_trim(
                             add_platform(geom, 0, ad + Half(len_d), z, corridor_w, len_d,
                                          c.floor_thickness),
                             0 - hw, ad, 0 - hw, ad + len_d, z, c.level_height),
                           hw, ad, hw, ad + len_d, z, c.level_height)
                    [] ds[i] = "south" ->
                         add_wall_with_trim(
                           add_wall_with_trim(
                             add_platform(geom, 0, 0 - (ad + Half(len_d)), z, corridor_w,
                                          len_d, c.floor_thickness),
                             0 - hw, 0 - ad, 0 - hw, 0 - (ad + len_d), z, c.level_height),
                           hw, 0 - ad, hw, 0 - (ad + len_d), z, c.level_height)
                    [] ds[i] = "east" ->
                         add_wall_with_trim(
                           add_wall_with_trim(
                             add_platform(geom, aw + Half(len_w), 0, z, len_w, corridor_w,
                                          c.floor_thickness),
                             aw, 0 - hw, aw + len_w, 0 - hw, z, c.level_height),
                           aw, hw, aw + len_w, hw, z, c.level_height)
                    [] ds[i] = "west" ->
                         add_wall_with_trim(
                           add_wall_with_trim(
                             add_platform(geom, 0 - (aw + Half(len_w)), 0, z, len_w,
                                          corridor_w, c.floor_thickness),
                             0 - aw, 0 - hw, 0 - (aw + len_w), 0 - hw, z, c.level_height),
                           0 - aw, hw, 0 - (aw + len_w), hw, z, c.level_height)
                    [] OTHER -> geom
         IN  CorridorsFrom(c, g, ds, i + 1)

RECURSIVE BalconiesFrom(_, _, _, _)
\* for bx, by, bw, bd, open_side in balconies: add_balcony(...)
BalconiesFrom(geom, bs, i, z) ==
    IF i > Len(bs) THEN geom
    ELSE BalconiesFrom(add_balcony(geom, bs[i][1], bs[i][2], z, bs[i][3], bs[i][4], bs[i][5]),
                       bs, i + 1, z)

\* one pass of the loop of v7 _build_upper_levels
UpperLevelGeom(c, lay, geom, lvl) ==
    LET z == FloorZ(c, lvl)
        avail_w == AvailableWidth(c, z)
        avail_d == AvailableDepth(c, z)
        g1 == BalconiesFrom(geom, get_balcony_config(c, lay, lvl, avail_w, avail_d), 1, z)
        scale == 1000 - lvl * 150
    IN  IF lvl < c.num_levels - 1
        THEN ColumnsFrom(g1, get_column_positions(c, lay, z, avail_w, avail_d), 1,
                         scale, z, z + c.level_height, Mul(c.column_width, scale))
        ELSE g1

---------------------------------------------------------------------------
(* The composer of v6.  add_detailed_platform and add_detailed_column      *)
(* leave a platform and a column in the builder.                           *)

\* add_balcony_overlook: a platform with its posts and rails on the edge at
\* y - d/2, the south one
add_balcony_overlook(geom, x, y, z, w, d) == add_balcony(geom, x, y, z, w, d, "south")

\* v6 _build_exterior: one tapered shell, whatever cfg.style is
ExteriorGeomV6(c) ==
    LET taper == Mul(c.base_height, c.wall_taper)
        top_w == c.base_width - taper * 2
        top_d == c.base_depth - taper * 2
    IN  add_tapered_shell(<<>>, c.base_width, c.base_depth, top_w, top_d,
                          c.base_height, c.exterior_wall_thickness, 0)

\* v6 _build_main_hall
MainHallGeomV6(c) ==
    LET hall_w == c.atrium_width
        hall_d == c.atrium_depth
        z == c.floor_thickness
        center_size == 10 * U
        center_height == 2 * U
        g0 == add_platform(<<>>, 0, 0, z, hall_w, hall_d, c.floor_thickness)
        g1 == add_platform(g0, 0, 0, z + center_height, center_size, center_size, 1 * U)
        step_w == center_size + 2 * U
        step_h == center_height \div 3
        StepY(i) == 0 - (Half(center_size) + 1 * U + i * 2 * U)
        steps == [k \in 1..6 |->
                    LET i == (k - 1) \div 2
                    IN  <<"box", 0, IF k % 2 = 1 THEN StepY(i) ELSE 0 - StepY(i),
                          z + i * step_h, step_w, 2 * U, step_h>>]
        col_offset == Half(hall_w) - c.column_width
        col_height == c.level_height * 2
        cols == << <<col_offset, col_offset>>, <<col_offset, 0 - col_offset>>,
                   <<0 - col_offset, col_offset>>, <<0 - col_offset, 0 - col_offset>> >>
        g2 == ColumnsFrom(g1 \o steps, cols, 1, 1000, z, z + col_height, c.column_width)
        panels == [k \in 1..4 |->
                     LET px == IF k <= 2 THEN 0 - (hall_w \div 4) ELSE hall_w \div 4
                     IN  IF k % 2 = 1
                         THEN <<"panel", px, Half(hall_d) - Half(U), z + 2 * U,
                                6 * U, 8 * U, "south">>
                         ELSE <<"panel", px, Half(U) - Half(hall_d), z + 2 * U,
                                6 * U, 8 * U, "north">>]
    IN  g2 \o panels

\* v6 _build_corridors
CorridorsV6(c) ==
    LET z == c.floor_thickness
        corridor_w == 10 * U
        corridor_length == Half(c.base_depth - c.atrium_depth) - c.exterior_wall_thickness
        ad == Half(c.atrium_depth)
        wall_x == Half(corridor_w)
        g1 == add_platform(<<>>, 0, ad + Half(corridor_length), z, corridor_w,
                           corridor_length, c.floor_thickness)
        g2 == add_wall_with_trim(g1, 0 - wall_x, ad, 0 - wall_x, ad + corridor_length,
                                 z, c.level_height)
        g3 == add_wall_with_trim(g2, wall_x, ad, wall_x, ad + corridor_length,
                                 z, c.level_height)
        g4 == add_platform(g3, 0, 0 - (ad + Half(corridor_length)), z, corridor_w,
                           corridor_length, c.floor_thickness)
        g5 == add_wall_with_trim(g4, 0 - wall_x, 0 - ad, 0 - wall_x,
                                 0 - (ad + corridor_length), z, c.level_height)
        g6 == add_wall_with_trim(g5, wall_x, 0 - ad, wall_x,
                                 0 - (ad + corridor_length), z, c.level_height)
        side_corr_len == Half(c.base_width - c.atrium_width) - c.exterior_wall_thickness
        corr_x == Half(c.atrium_width) + Half(side_corr_len)
        g7 == add_platform(g6, corr_x, 0, z, side_corr_len, corridor_w, c.floor_thickness)
    IN  add_platform(g7, 0 - corr_x, 0, z, side_corr_len, corridor_w, c.floor_thickness)

\* one pass of the loop of v6 _build_upper_levels
UpperLevelGeomV6(c, geom, lvl) ==
    LET z == FloorZ(c, lvl)
        avail_w == AvailableWidth(c, z)
        avail_d == AvailableDepth(c, z)
        platform_w == Half(avail_w - c.atrium_width) - 2 * U
        platform_d == Half(avail_d - c.atrium_depth) - 2 * U
        py == Half(avail_d) - Half(platform_d)
        px == Half(avail_w) - Half(platform_w)
        g1 == add_balcony_overlook(geom, 0, py, z, Mul(avail_w, 700), platform_d)
        g2 == add_balcony_overlook(g1, 0, 0 - py, z, Mul(avail_w, 700), platform_d)
        g3 == add_platform(g2, px, 0, z, platform_w, Mul(c.atrium_depth, 600),
                           c.floor_thickness)
        g4 == add_platform(g3, 0 - px, 0, z, platform_w, Mul(c.atrium_depth, 600),
                           c.floor_thickness)
        col_offset_w == Half(avail_w) - c.column_width - 2 * U
        col_offset_d == Half(avail_d) - c.column_width - 2 * U
        cols == << <<col_offset_w, col_offset_d>>, <<col_offset_w, 0 - col_offset_d>>,
                   <<0 - col_offset_w, col_offset_d>>,
                   <<0 - col_offset_w, 0 - col_offset_d>> >>
        g5 == IF lvl < c.num_levels - 1
              THEN ColumnsFrom(g4, cols, 1, 1000, z, z + c.level_height,
                               Mul(c.column_width, 800))
              ELSE g4
        g6 == IF platform_w > 4 * U /\ platform_d > 4 * U THEN g5 ELSE geom
    IN  IF lvl = c.num_levels - 1
        THEN Append(g6, <<"ceiling", 0, 0, z + c.level_height - 2 * U,
                          Mul(c.atrium_width, 800), Mul(c.atrium_depth, 800),
                          Half(3 * U)>>)
        ELSE g6

\* v6 _build_entrances: a south and a north entrance, each a ramp and its
\* landing platform
EntrancesV6(c) ==
    LET entrance_z == Mul(c.level_height, 350)
        taper_at_entrance == TaperAt(c, entrance_z)
        wall_offset == Half(c.base_depth) - taper_at_entrance
        ramp_length == Mul(entrance_z, Cot(20))
        g1 == add_ramp(<<>>, 0, 0 - (wall_offset + ramp_length), 0,
                       0, 0 - wall_offset + 5 * U, entrance_z, c.ramp_width + 2 * U)
        g2 == add_platform(g1, 0, 0 - wall_offset + 8 * U, entrance_z,
                           c.ramp_width + 6 * U, 8 * U, 1 * U)
        g3 == add_ramp(g2, 0, wall_offset + ramp_length, 0,
                       0, wall_offset - 5 * U, entrance_z, c.ramp_width + 2 * U)
    IN  add_platform(g3, 0, wall_offset - 8 * U, entrance_z,
                     c.ramp_width + 6 * U, 8 * U, 1 * U)

---------------------------------------------------------------------------
(* What the entry point may be asked. *)

Variants == {"v4", "v6", "v7"}
Styles == {"pyramid", "stepped", "tower"}
Seeds == 0..MaxSeed
LevelArgs == 1..MaxLevelsArg

\* kwargs items: Config fields with values inside and outside the valid
\* ranges, and a key that is no Config field.  style, seed and num_levels
\* are parameters of generate_base: a keyword of that name is bound to the
\* parameter and never reaches kwargs
OverrideItems ==
    { <<"base_width", 50 * U>>, <<"base_depth", 0>>,
      <<"wall_taper", 400>>, <<"wall_taper", 600>>, <<"wall_taper", 0 - 100>>,
      <<"bogus", 1>> }

\* the kwargs mappings of the calls, their items in order: none, one
\* override, or two or three overrides of different keys
KwargsSet ==
    { <<>> }
        \cup { <<item>> : item \in OverrideItems }
        \cup { << <<"wall_taper", 400>>, <<"base_width", 50 * U>> >>,
               << <<"bogus", 1>>, <<"wall_taper", 400>> >>,
               << <<"base_width", 64 * U>>, <<"base_height", 48 * U>>,
                  <<"wall_taper", 300>> >> }

NoLayout ==
    [ corridor_config |-> "none", has_center_platform |-> FALSE,
      column_pattern |-> "none", ramp_style |-> "none",
      balcony_config |-> "none", num_side_rooms |-> 0,
      entrance_config |-> "none", rng |-> 0 ]

\* bpy.data.collections seen through the name "FPSZ_Generated_Base": whether
\* a collection of that name exists, the objects linked to it, and how many
\* further collections were created under the name while it was taken
\* (Blender keeps both and gives the new one a numbered name)
NoCollection == [exists |-> FALSE, objects |-> <<>>, duplicates |-> 0]

\* the block under `if col_name in bpy.data.collections` left out
RemoveCollectionKept(col) == col

\* if col_name in bpy.data.collections: every object of the collection is
\* removed, then the collection
RemoveCollection(col) ==
    IF col.exists THEN [col EXCEPT !.exists = FALSE, !.objects = <<>>] ELSE col

\* bpy.data.collections.new(col_name), linked to the scene
NewCollection(col) ==
    IF col.exists THEN [col EXCEPT !.duplicates = @ + 1]
    ELSE [col EXCEPT !.exists = TRUE, !.objects = <<>>]

Init ==
    /\ pc = "idle"
    /\ variant = "v7"
    /\ request = [style |-> "pyramid", seed |-> 0, num_levels |-> 0, kwargs |-> <<>>]
    /\ cfg = ConfigV7
    /\ pending = <<>>
    /\ rooms = <<>>
    /\ room_id_counter = 0
    /\ level = 0
    /\ plan = <<>>
    /\ layout = NoLayout
    /\ rng = 0
    /\ draws = <<>>
    /\ grng = 0
    /\ parts = <<>>
    /\ collection = NoCollection
    /\ levels = <<>>
    /\ ramps = <<>>
    /\ log = {}
    /\ calls = <<>>

---------------------------------------------------------------------------
(* generate_base *)

\* cfg = Config(); style; seed; num_levels clamped; base_height from it
EntryConfig(v, style, seed, n) ==
    LET c1 == [Config(v) EXCEPT !.style = StyleMap(style), !.seed = seed,
                                !.num_levels = ClampLevels(n)]
    IN  [c1 EXCEPT !.base_height = BaseHeightFor(c1)]

\* generate_base(style, seed, num_levels, **kwargs) is called
Call(v, style, seed, n, kw) ==
    /\ pc = "idle"
    /\ pc' = "overrides"
    /\ variant' = v
    /\ request' = [style |-> style, seed |-> seed, num_levels |-> n, kwargs |-> kw]
    /\ cfg' = EntryConfig(v, style, seed, n)
    /\ pending' = kw
    /\ rooms' = <<>>
    /\ room_id_counter' = 0
    /\ level' = 0
    /\ plan' = <<>>
    /\ layout' = NoLayout
    /\ rng' = 0
    /\ draws' = <<>>
    /\ parts' = <<>>
    /\ levels' = <<>>
    /\ ramps' = <<>>
    /\ UNCHANGED <<grng, collection, log, calls>>

Request ==
    \E v \in Variants, style \in Styles, seed \in Seeds, n \in LevelArgs, kw \in KwargsSet :
        Call(v, style, seed, n, kw)

\* one pass of the override loop
ApplyOverride ==
    /\ pc = "overrides"
    /\ pending # <<>>
    /\ cfg' = Override(cfg, Head(pending))
    /\ pending' = Tail(pending)
    /\ UNCHANGED <<pc, variant, request, rooms, room_id_counter, level, plan, layout,
                   rng, draws, grng, parts, collection, levels, ramps, log, calls>>

\* the process-wide generator after TribesBaseGenerator.__init__:
\* v4 and v6 call random.seed(cfg.seed), v7 leaves it alone
GlobalAfterInit(v, c, g) == IF v \in {"v4", "v6"} THEN Seeded(c.seed) ELSE g

\* generator = TribesBaseGenerator(cfg)
NewGenerator ==
    /\ pc = "overrides"
    /\ pending = <<>>
    /\ pc' = "setup"
    /\ grng' = GlobalAfterInit(variant, cfg, grng)
    /\ UNCHANGED <<variant, request, cfg, pending, rooms, room_id_counter, level, plan,
                   layout, rng, draws, parts, collection, levels, ramps, log, calls>>

\* _setup_collection: an existing collection is emptied and removed, a new
\* empty one is created; v6 has no layout to generate before it builds
SetupCollection ==
    /\ pc = "setup"
    /\ pc' = IF variant = "v6" THEN "exterior" ELSE "layout"
    /\ collection' = NewCollection(RemoveCollection(collection))
    /\ UNCHANGED <<variant, request, cfg, pending, rooms, room_id_counter, level, plan,
                   layout, rng, draws, grng, parts, levels, ramps, log, calls>>

---------------------------------------------------------------------------
(* v4: InteriorLayout(cfg).generate_layout() *)

NewInteriorLayout ==
    /\ pc = "layout"
    /\ variant = "v4"
    /\ pc' = "levels"
    /\ rooms' = <<>>
    /\ room_id_counter' = 0
    /\ rng' = Seeded(cfg.seed)
    /\ level' = 0
    /\ UNCHANGED <<variant, request, cfg, pending, plan, layout, draws, grng, parts,
                   collection, levels, ramps, log, calls>>

\* _generate_level(level) starts: the envelope is computed and the floor
\* builder for the level is entered
GenerateLevel ==
    /\ pc = "levels"
    /\ level < cfg.num_levels
    /\ pc' = "floor"
    /\ plan' = LevelPlan(cfg, level, Len(rooms))
    /\ levels' = Append(levels, [level |-> level, z |-> FloorZ(cfg, level),
                                 avail_w |-> AvailableWidth(cfg, FloorZ(cfg, level)),
                                 avail_d |-> AvailableDepth(cfg, FloorZ(cfg, level))])
    /\ UNCHANGED <<variant, request, cfg, pending, rooms, room_id_counter, level, layout,
                   rng, draws, grng, parts, collection, ramps, log, calls>>

\* the next statement group of the floor builder: a room is created (if the
\* step creates one) and its connections are recorded; after the last one
\* the level loop moves on
FloorStep ==
    /\ pc = "floor"
    /\ plan # <<>>
    /\ LET s == Head(plan)
           added == IF s.add # <<>> THEN add_room(rooms, room_id_counter, s.add[1])
                    ELSE [rooms |-> rooms, room_id_counter |-> room_id_counter]
       IN  /\ rooms' = ApplyAppends(added.rooms, s.appends)
           /\ room_id_counter' = added.room_id_counter
    /\ plan' = Tail(plan)
    /\ IF Tail(plan) = <<>>
       THEN pc' = "levels" /\ level' = level + 1
       ELSE pc' = "floor" /\ level' = level
    /\ UNCHANGED <<variant, request, cfg, pending, layout, rng, draws, grng, parts,
                   collection, levels, ramps, log, calls>>

\* after the level loop: _create_vertical_connections, and generate_layout
\* returns the rooms
VerticalConnections ==
    /\ pc = "levels"
    /\ level >= cfg.num_levels
    /\ pc' = "exterior"
    /\ rooms' = create_vertical_connections(rooms)
    /\ UNCHANGED <<variant, request, cfg, pending, room_id_counter, level, plan, layout,
                   rng, draws, grng, parts, collection, levels, ramps, log, calls>>

---------------------------------------------------------------------------
(* v7: LayoutGenerator(cfg) *)

NewLayoutGenerator ==
    /\ pc = "layout"
    /\ variant = "v7"
    /\ pc' = "exterior"
    /\ layout' = DrawLayout(LayoutStream(cfg.seed, grng))
    /\ rng' = DrawLayout(LayoutStream(cfg.seed, grng)).rng
    /\ draws' = InitDraws
    /\ UNCHANGED <<variant, request, cfg, pending, rooms, room_id_counter, level, plan,
                   grng, parts, collection, levels, ramps, log, calls>>

---------------------------------------------------------------------------
(* TribesBaseGenerator.generate: the build steps.  A step that creates its *)
(* builder, fills it and finalizes it in one method is one action; a       *)
(* method with a per-level loop is an action that creates the builder, one *)
(* per pass of the loop, and one that finalizes.                           *)

\* objects of the collection after MeshBuilder.finalize links one more
Linked(col, name) == [col EXCEPT !.objects = Append(col.objects, name)]

\* the last builder created gets geometry g
WithGeom(ps, g) == [ps EXCEPT ![Len(ps)].geom = g]

\* the last builder created is finalized
FinalizeLast(ps) == [ps EXCEPT ![Len(ps)] = Finalized(ps[Len(ps)])]

ExteriorName(v) == IF v = "v4" THEN "Base_Exterior" ELSE "Base_Exterior"
RampsName(v) == IF v = "v4" THEN "Base_Ramps" ELSE "Ramps"
EntrancesName(v) == IF v = "v4" THEN "Base_Entrances" ELSE "Entrances"

\* _build_exterior
BuildExterior ==
    /\ pc = "exterior"
    /\ pc' = IF variant = "v4" THEN "interior" ELSE "main_hall"
    /\ parts' = Append(parts, Finalized([NewPart(ExteriorName(variant))
                                           EXCEPT !.geom = IF variant = "v6"
                                                           THEN ExteriorGeomV6(cfg)
                                                           ELSE ExteriorGeom(cfg)]))
    /\ collection' = Linked(collection, ExteriorName(variant))
    /\ UNCHANGED <<variant, request, cfg, pending, rooms, room_id_counter, level, plan,
                   layout, rng, draws, grng, levels, ramps, log, calls>>

\* v4 _build_interior: two builders are created, the floors one is filled
\* and finalized
BuildInterior ==
    /\ pc = "interior"
    /\ pc' = "ramps"
    /\ parts' = parts \o
                << Finalized([NewPart("Base_Floors")
                                EXCEPT !.geom = InteriorGeom(<<>>, rooms, 1)]),
                   NewPart("Base_Walls") >>
    /\ collection' = Linked(collection, "Base_Floors")
    /\ UNCHANGED <<variant, request, cfg, pending, rooms, room_id_counter, level, plan,
                   layout, rng, draws, grng, levels, ramps, log, calls>>

\* _build_main_hall of v6 and v7
BuildMainHall ==
    /\ pc = "main_hall"
    /\ pc' = "corridors"
    /\ parts' = Append(parts, Finalized([NewPart("Main_Hall")
                                           EXCEPT !.geom = IF variant = "v6"
                                                           THEN MainHallGeomV6(cfg)
                                                           ELSE MainHallGeom(cfg, layout, rng)]))
    /\ rng' = IF variant = "v6" THEN rng ELSE MainHallStream(layout, rng)
    /\ draws' = IF variant = "v6" THEN draws ELSE draws \o MainHallDraws(layout)
    /\ collection' = Linked(collection, "Main_Hall")
    /\ UNCHANGED <<variant, request, cfg, pending, rooms, room_id_counter, level, plan,
                   layout, grng, levels, ramps, log, calls>>

\* _build_corridors of v6 and v7
BuildCorridors ==
    /\ pc = "corridors"
    /\ pc' = "upper"
    /\ parts' = Append(parts,
                       Finalized([NewPart("Corridors")
                                    EXCEPT !.geom = IF variant = "v6" THEN CorridorsV6(cfg)
                                                    ELSE CorridorsFrom(cfg, <<>>,
                                                      get_corridor_endpoints(layout), 1)]))
    /\ collection' = Linked(collection, "Corridors")
    /\ UNCHANGED <<variant, request, cfg, pending, rooms, room_id_counter, level, plan,
                   layout, rng, draws, grng, levels, ramps, log, calls>>

\* _build_upper_levels of v6 and v7: the builder is created; level = 1
BeginUpperLevels ==
    /\ pc = "upper"
    /\ pc' = "upper_loop"
    /\ parts' = Append(parts, NewPart("Upper_Levels"))
    /\ level' = 1
    /\ UNCHANGED <<variant, request, cfg, pending, rooms, room_id_counter, plan, layout,
                   rng, draws, grng, collection, levels, ramps, log, calls>>

\* one pass of the loop of _build_upper_levels
UpperLevel ==
    /\ pc = "upper_loop"
    /\ level < cfg.num_levels
    /\ parts' = WithGeom(parts,
                          IF variant = "v6"
                          THEN UpperLevelGeomV6(cfg, parts[Len(parts)].geom, level)
                          ELSE UpperLevelGeom(cfg, layout, parts[Len(parts)].geom, level))
    /\ levels' = Append(levels, [level |-> level, z |-> FloorZ(cfg, level),
                                 avail_w |-> AvailableWidth(cfg, FloorZ(cfg, level)),
                                 avail_d |-> AvailableDepth(cfg, FloorZ(cfg, level))])
    /\ level' = level + 1
    /\ UNCHANGED <<pc, variant, request, cfg, pending, rooms, room_id_counter, plan,
                   layout, rng, draws, grng, collection, ramps, log, calls>>

\* the loop of _build_upper_levels is over: finalize
EndUpperLevels ==
    /\ pc = "upper_loop"
    /\ level >= cfg.num_levels
    /\ pc' = "ramps"
    /\ parts' = FinalizeLast(parts)
    /\ collection' = Linked(collection, "Upper_Levels")
    /\ UNCHANGED <<variant, request, cfg, pending, rooms, room_id_counter, level, plan,
                   layout, rng, draws, grng, levels, ramps, log, calls>>

\* _build_ramps: the ramp builder is created; level = 0
BeginRamps ==
    /\ pc = "ramps"
    /\ pc' = "ramps_loop"
    /\ parts' = Append(parts, NewPart(RampsName(variant)))
    /\ level' = 0
    /\ ramps' = <<>>
    /\ UNCHANGED <<variant, request, cfg, pending, rooms, room_id_counter, plan, layout,
                   rng, draws, grng, collection, levels, log, calls>>

\* one pass of the loop of _build_ramps; ramps notes the level of every ramp
\* that reached the builder
RampStep ==
    /\ pc = "ramps_loop"
    /\ level < cfg.num_levels - 1
    /\ LET g == parts[Len(parts)].geom
           g2 == PlaceRamp(variant, cfg, layout, g, level)
       IN  /\ parts' = WithGeom(parts, g2)
           /\ ramps' = IF g2 = g THEN ramps
                       ELSE Append(ramps, [level |-> level, ramp |-> g2[Len(g2)]])
    /\ level' = level + 1
    /\ UNCHANGED <<pc, variant, request, cfg, pending, rooms, room_id_counter, plan,
                   layout, rng, draws, grng, collection, levels, log, calls>>

\* the loop of _build_ramps is over: finalize
EndRamps ==
    /\ pc = "ramps_loop"
    /\ level >= cfg.num_levels - 1
    /\ pc' = "entrances"
    /\ parts' = FinalizeLast(parts)
    /\ collection' = Linked(collection, RampsName(variant))
    /\ UNCHANGED <<variant, request, cfg, pending, rooms, room_id_counter, level, plan,
                   layout, rng, draws, grng, levels, ramps, log, calls>>

\* _build_entrances, after which generate and generate_base return
BuildEntrances ==
    /\ pc = "entrances"
    /\ pc' = "done"
    /\ parts' = Append(parts,
                       Finalized([NewPart(EntrancesName(variant))
                                    EXCEPT !.geom = CASE variant = "v4" -> EntrancesV4(cfg)
                                                      [] variant = "v6" -> EntrancesV6(cfg)
                                                      [] OTHER -> EntrancesV7(cfg, layout)]))
    /\ collection' = Linked(collection, EntrancesName(variant))
    /\ UNCHANGED <<variant, request, cfg, pending, rooms, room_id_counter, level, plan,
                   layout, rng, draws, grng, levels, ramps, log, calls>>

Build ==
    \/ ApplyOverride
    \/ NewGenerator
    \/ SetupCollection
    \/ NewInteriorLayout
    \/ GenerateLevel
    \/ FloorStep
    \/ VerticalConnections
    \/ NewLayoutGenerator
    \/ BuildExterior
    \/ BuildInterior
    \/ BuildMainHall
    \/ BuildCorridors
    \/ BeginUpperLevels
    \/ UpperLevel
    \/ EndUpperLevels
    \/ BeginRamps
    \/ RampStep
    \/ EndRamps
    \/ BuildEntrances

Next == Request \/ Build

Spec == Init /\ [][Next]_vars

---------------------------------------------------------------------------
(* Several calls of generate_base in one process, one after the other. *)

\* the inputs of the repeated calls
RunSeeds == 0..MaxRunSeed
RunKwargs == { <<>>, << <<"base_width", 50 * U>> >> }

\* what a finished run was asked for
RunKey == [variant |-> variant, cfg |-> cfg]

\* what a finished run chose and built: the topology choices, the draws in
\* their order, the stream they left, and the rooms with their connections
RunResult == [layout |-> layout, draws |-> draws, rng |-> rng, rooms |-> rooms]

\* generate_base(style, seed, num_levels, **kwargs) is called again
RunRequest ==
    /\ Cardinality(log) < MaxRuns
    /\ \E v \in Variants, seed \in RunSeeds, kw \in RunKwargs :
          Call(v, "pyramid", seed, 3, kw)

\* generate_base returns the generator; the caller keeps what it was given
Return ==
    /\ pc = "done"
    /\ pc' = "idle"
    /\ log' = log \cup {[key |-> RunKey, result |-> RunResult]}
    /\ UNCHANGED <<variant, request, cfg, pending, rooms, room_id_counter, level, plan,
                   layout, rng, draws, grng, parts, collection, levels, ramps, calls>>

\* FPSZ_OT_ClearGenerated.execute, between two calls
Clear ==
    /\ pc = "idle"
    /\ collection' = RemoveCollection(collection)
    /\ UNCHANGED <<pc, variant, request, cfg, pending, rooms, room_id_counter, level,
                   plan, layout, rng, draws, grng, parts, levels, ramps, log, calls>>

NextRuns == RunRequest \/ Build \/ Return \/ Clear

SpecRuns == Init /\ [][NextRuns]_vars

---------------------------------------------------------------------------
(* The vertices and faces the builders create.  A solid is the vertices in *)
(* creation order and the faces as sequences of 0-based vertex indices.    *)

\* add_box: vb = 0..3, vt = 4..7; faces vb[::-1], vt, and the four sides
BoxSolid(x, y, z, w, d, h) ==
    LET hw == Half(w)
        hd == Half(d)
    IN  [ verts |-> << <<x - hw, y - hd, z>>, <<x + hw, y - hd, z>>,
                       <<x + hw, y + hd, z>>, <<x - hw, y + hd, z>>,
                       <<x - hw, y - hd, z + h>>, <<x + hw, y - hd, z + h>>,
                       <<x + hw, y + hd, z + h>>, <<x - hw, y + hd, z + h>> >>,
          faces |-> << <<3, 2, 1, 0>>, <<4, 5, 6, 7>> >>
                    \o [i \in 1..4 |-> <<i - 1, i % 4, 4 + (i % 4), 4 + (i - 1)>>] ]

\* _add_tapered_box_faces of v4: v_bottom = 0..3, v_top = 4..7
TaperedBoxSolid(base_w, base_d, top_w, top_d, height, base_z, invert) ==
    LET bw == Half(base_w)
        bd == Half(base_d)
        tw == Half(top_w)
        td == Half(top_d)
        z0 == base_z
        z1 == base_z + height
    IN  [ verts |-> << <<0 - bw, 0 - bd, z0>>, <<bw, 0 - bd, z0>>,
                       <<bw, bd, z0>>, <<0 - bw, bd, z0>>,
                       <<0 - tw, 0 - td, z1>>, <<tw, 0 - td, z1>>,
                       <<tw, td, z1>>, <<0 - tw, td, z1>> >>,
          faces |-> IF invert
                    THEN << <<0, 1, 2, 3>>, <<7, 6, 5, 4>> >>
                         \o [i \in 1..4 |-> <<4 + (i - 1), 4 + (i % 4), i % 4, i - 1>>]
                    ELSE << <<3, 2, 1, 0>>, <<4, 5, 6, 7>> >>
                         \o [i \in 1..4 |-> <<i - 1, i % 4, 4 + (i % 4), 4 + (i - 1)>>] ]

\* add_tapered_shell with the inner frustum reduced by the wall thickness
\* once, not on both sides
ShellSolidsV4Thin(base_w, base_d, top_w, top_d, height, wall_thick, base_z) ==
    << TaperedBoxSolid(base_w, base_d, top_w, top_d, height, base_z, FALSE),
       TaperedBoxSolid(base_w - wall_thick, base_d - wall_thick,
                       top_w - wall_thick, top_d - wall_thick,
                       height, base_z, TRUE) >>

\* add_tapered_shell of v4: the outer frustum, then the inner one inverted
ShellSolidsV4(base_w, base_d, top_w, top_d, height, wall_thick, base_z) ==
    << TaperedBoxSolid(base_w, base_d, top_w, top_d, height, base_z, FALSE),
       TaperedBoxSolid(base_w - wall_thick * 2, base_d - wall_thick * 2,
                       top_w - wall_thick * 2, top_d - wall_thick * 2,
                       height, base_z, TRUE) >>

\* add_tapered_shell of v7 (and _add_tapered_shell of v6): vob, vot, then
\* vib, vit with the faces turned
ShellSolidsV7(base_w, base_d, top_w, top_d, height, thick, z_base) ==
    LET bw == Half(base_w)
        bd == Half(base_d)
        tw == Half(top_w)
        td == Half(top_d)
        z0 == z_base
        z1 == z_base + height
        ibw == bw - thick
        ibd == bd - thick
        itw == tw - thick
        itd == td - thick
    IN  << [ verts |-> << <<0 - bw, 0 - bd, z0>>, <<bw, 0 - bd, z0>>,
                          <<bw, bd, z0>>, <<0 - bw, bd, z0>>,
                          <<0 - tw, 0 - td, z1>>, <<tw, 0 - td, z1>>,
                          <<tw, td, z1>>, <<0 - tw, td, z1>> >>,
             faces |-> << <<3, 2, 1, 0>>, <<4, 5, 6, 7>> >>
                       \o [i \in 1..4 |-> <<i - 1, i % 4, 4 + (i % 4), 4 + (i - 1)>>] ],
           [ verts |-> << <<0 - ibw, 0 - ibd, z0>>, <<ibw, 0 - ibd, z0>>,
                          <<ibw, ibd, z0>>, <<0 - ibw, ibd, z0>>,
                          <<0 - itw, 0 - itd, z1>>, <<itw, 0 - itd, z1>>,
                          <<itw, itd, z1>>, <<0 - itw, itd, z1>> >>,
             faces |-> << <<0, 1, 2, 3>>, <<7, 6, 5, 4>> >>
                       \o [i \in 1..4 |-> <<i % 4, i - 1, 4 + (i - 1), 4 + (i % 4)>>] ] >>

\* -d / length * width / 2, the sign kept outside the integer division
Perp(d, length, width) ==
    IF d >= 0 THEN 0 - ((d * width) \div (2 * length))
    ELSE ((0 - d) * width) \div (2 * length)

\* a ramp body whose left side face is wound the way of the top face
RampBodySideTurned(x1, y1, z1, x2, y2, z2, width, thick) ==
    [ verts |-> << <<x1, y1, z1>>, <<x1, y1, z1>>, <<x2, y2, z2>>, <<x2, y2, z2>>,
                   <<x1, y1, z1 - thick>>, <<x1, y1, z1 - thick>>,
                   <<x2, y2, z2 - thick>>, <<x2, y2, z2 - thick>> >>,
      faces |-> << <<0, 1, 2, 3>>, <<7, 6, 5, 4>>, <<0, 4, 7, 3>>,
                   <<1, 5, 6, 2>>, <<0, 4, 5, 1>>, <<2, 6, 7, 3>> >> ]

\* the body of a ramp (add_ramp of v4 and v7, add_detailed_ramp of v6):
\* the top face's vertices 0..3 first, the bottom's 4..7 after
RampBody(x1, y1, z1, x2, y2, z2, width, thick) ==
    LET dx == x2 - x1
        dy == y2 - y1
        length == Length(dx, dy)
        px == Perp(dy, length, width)
        py == 0 - Perp(dx, length, width)
    IN  [ verts |-> << <<x1 - px, y1 - py, z1>>, <<x1 + px, y1 + py, z1>>,
                       <<x2 + px, y2 + py, z2>>, <<x2 - px, y2 - py, z2>>,
                       <<x1 - px, y1 - py, z1 - thick>>, <<x1 + px, y1 + py, z1 - thick>>,
                       <<x2 + px, y2 + py, z2 - thick>>, <<x2 - px, y2 - py, z2 - thick>> >>,
          faces |-> << <<0, 1, 2, 3>>, <<7, 6, 5, 4>>, <<0, 3, 7, 4>>,
                       <<1, 5, 6, 2>>, <<0, 4, 5, 1>>, <<2, 6, 7, 3>> >> ]

\* the edge rails of add_ramp of v7:  for side in [-1, 1]: add_box(...)
RampRailsV7(x1, y1, z1, x2, y2, z2, width, edge_h) ==
    LET dx == x2 - x1
        dy == y2 - y1
        length == Length(dx, dy)
        px == Perp(dy, length, width)
        py == 0 - Perp(dx, length, width)
        ew == Mul(U, 400)
        epx == Perp(dy, length, ew)
        epy == 0 - Perp(dx, length, ew)
        Rail(side) ==
            LET rx1 == x1 + side * (px - epx)
                ry1 == y1 + side * (py - epy)
                rx2 == x2 + side * (px - epx)
                ry2 == y2 + side * (py - epy)
            IN  BoxSolid((rx1 + rx2) \div 2, (ry1 + ry2) \div 2, (z1 + z2) \div 2,
                         ew, length, edge_h)
    IN  << Rail(0 - 1), Rail(1) >>

\* _add_ramp_rail of v6: nothing when shorter than 0.01; v1 = 0..3, v2 = 4..7
RampRailV6(x1, y1, z1, x2, y2, z2, width, height) ==
    LET dx == x2 - x1
        dy == y2 - y1
        length == Length(dx, dy)
        px == Perp(dy, length, width)
        py == 0 - Perp(dx, length, width)
    IN  IF length < Eps THEN <<>>
        ELSE << [ verts |-> << <<x1 - px, y1 - py, z1>>, <<x1 + px, y1 + py, z1>>,
                               <<x1 + px, y1 + py, z1 + height>>,
                               <<x1 - px, y1 - py, z1 + height>>,
                               <<x2 - px, y2 - py, z2>>, <<x2 + px, y2 + py, z2>>,
                               <<x2 + px, y2 + py, z2 + height>>,
                               <<x2 - px, y2 - py, z2 + height>> >>,
                  faces |-> << <<0, 1, 5, 4>>, <<3, 7, 6, 2>>, <<0, 4, 7, 3>>,
                               <<1, 2, 6, 5>>, <<0, 1, 2, 3>>, <<7, 6, 5, 4>> >> ] >>

\* the edge rails of add_detailed_ramp of v6: the left rail, then the right
RampRailsV6(x1, y1, z1, x2, y2, z2, width, edge_height) ==
    LET dx == x2 - x1
        dy == y2 - y1
        length == Length(dx, dy)
        px == Perp(dy, length, width)
        py == 0 - Perp(dx, length, width)
        edge_w == Mul(U, 400)
        edge_px == Perp(dy, length, edge_w)
        edge_py == 0 - Perp(dx, length, edge_w)
    IN  RampRailV6(x1 - px + edge_px, y1 - py + edge_py, z1,
                   x2 - px + edge_px, y2 - py + edge_py, z2, edge_w, edge_height)
        \o RampRailV6(x1 + px - edge_px, y1 + py - edge_py, z1,
                      x2 + px - edge_px, y2 + py - edge_py, z2, edge_w, edge_height)

\* the rails a ramp entry of a builder's geometry stands for: none in v4
RailsOf(v, e) ==
    CASE v = "v7" -> RampRailsV7(e[2], e[3], e[4], e[5], e[6], e[7], e[8], Mul(U, 500))
      [] v = "v6" -> RampRailsV6(e[2], e[3], e[4], e[5], e[6], e[7], e[8], Mul(U, 500))
      [] OTHER -> <<>>

\* the closed solids a box, shell or ramp entry of a builder's geometry
\* stands for (a ramp's rails are RailsOf)
SolidsOf(v, e) ==
    CASE e[1] = "box" -> << BoxSolid(e[2], e[3], e[4], e[5], e[6], e[7]) >>
      [] e[1] = "shell" ->
           IF v = "v4" THEN ShellSolidsV4(e[2], e[3], e[4], e[5], e[6], e[7], e[8])
           ELSE ShellSolidsV7(e[2], e[3], e[4], e[5], e[6], e[7], e[8])
      [] e[1] = "ramp" ->
           << RampBody(e[2], e[3], e[4], e[5], e[6], e[7], e[8], Mul(U, 500)) >>
      [] OTHER -> <<>>

\* the railing of a balcony entry: the axis it is measured on (1 = x, 2 = y)
\* and where on that axis its posts and top rail stand; rt = 0.4
BalconyRail(e) ==
    LET x == e[2]
        y == e[3]
        w == e[5]
        d == e[6]
        rt == Mul(U, 400)
    IN  CASE e[7] = "south" -> <<2, y - Half(d) + Half(rt)>>
          [] e[7] = "north" -> <<2, y + Half(d) - Half(rt)>>
          [] e[7] = "east" -> <<1, x + Half(w) - Half(rt)>>
          [] OTHER -> <<1, x - Half(w) + Half(rt)>>

\* add_wall_with_trim called with num_bands and the trim height given; the
\* entries of add_wall_with_trim proper stand for num_bands = 3 and 0.8
add_wall_with_bands(geom, x1, y1, x2, y2, z, height, num_bands, trim_h) ==
    IF Length(x2 - x1, y2 - y1) < Eps THEN geom
    ELSE Append(geom, <<"wall", x1, y1, x2, y2, z, height, num_bands, trim_h>>)

\* _wall_section: nothing when h < 0.01
WallSection(kind, z, h) ==
    IF h < Eps THEN <<>> ELSE << [kind |-> kind, z |-> z, h |-> h] >>

RECURSIVE BaseSections(_, _, _, _, _)
\* the first loop of add_wall_with_trim, from pass i on
BaseSections(z, spacing, trim_h, num_bands, i) ==
    IF i > num_bands THEN <<>>
    ELSE LET sec_z == z + i * spacing
             sec_h == IF i < num_bands THEN spacing - trim_h ELSE spacing
         IN  (IF sec_h > 0 THEN WallSection("base", sec_z, sec_h) ELSE <<>>)
             \o BaseSections(z, spacing, trim_h, num_bands, i + 1)

RECURSIVE TrimSections(_, _, _, _, _)
\* the second loop of add_wall_with_trim, from pass i on
TrimSections(z, spacing, trim_h, num_bands, i) ==
    IF i > num_bands THEN <<>>
    ELSE WallSection("trim", z + i * spacing - trim_h, trim_h)
         \o TrimSections(z, spacing, trim_h, num_bands, i + 1)

\* the sections a wall entry of a builder's geometry stands for, in the
\* order they are created
WallSections(e) ==
    LET z == e[6]
        height == e[7]
        num_bands == IF Len(e) >= 9 THEN e[8] ELSE 3
        trim_h == IF Len(e) >= 9 THEN e[9] ELSE Mul(U, 800)
        spacing == height \div (num_bands + 1)
    IN  BaseSections(z, spacing, trim_h, num_bands, 0)
        \o TrimSections(z, spacing, trim_h, num_bands, 1)

---------------------------------------------------------------------------
(* A mesh builder used on its own: MeshBuilder(name), then builder calls.  *)

\* the most builder calls made on one builder
MaxCalls == 2

MeshVariants == {"v4", "v6", "v7"}

\* end point minus start point of a ramp or of a wall run
RunDeltas ==
    { <<0, 0>>, <<1, 0>>, <<1, 1>>, <<2, 0>>, <<0, 10 * U>>, <<0, 0 - 10 * U>>,
      <<10 * U, 0>>, <<0 - 10 * U, 0>>, <<6 * U, 8 * U>> }

RampRises == {0, 5 * U}
RampWidths == {4 * U, 8 * U}

BoxArgs == { <<0, 0, 0, 4 * U, 6 * U, 2 * U>>, <<U, 0 - U, 3 * U, 2 * U, 2 * U, U>> }

ShellArgs ==
    { <<80 * U, 80 * U, 56 * U, 56 * U, 60 * U, 4 * U, 0>>,
      <<20 * U, 10 * U, 30 * U, 12 * U, 5 * U, U, 2 * U>> }

\* mb = MeshBuilder(name)
NewBuilder(v) ==
    /\ pc = "idle"
    /\ pc' = "mesh"
    /\ variant' = v
    /\ parts' = <<NewPart("Mesh")>>
    /\ UNCHANGED <<request, cfg, pending, rooms, room_id_counter, level, plan,
                   layout, rng, draws, grng, collection, levels, ramps, log, calls>>

\* one builder call: the builder's geometry becomes g
MeshCall(op, args, g) ==
    /\ pc = "mesh"
    /\ Len(calls) < MaxCalls
    /\ parts' = WithGeom(parts, g)
    /\ calls' = Append(calls, [op |-> op, args |-> args])
    /\ UNCHANGED <<pc, variant, request, cfg, pending, rooms, room_id_counter,
                   level, plan, layout, rng, draws, grng, collection, levels,
                   ramps, log>>

\* mb.add_ramp(x1, y1, z1, x2, y2, z2, width)
CallAddRamp ==
    \E d \in RunDeltas, rise \in RampRises, width \in RampWidths :
        MeshCall("add_ramp", <<U, 0 - U, U, U + d[1], d[2] - U, U + rise, width>>,
                 add_ramp(parts[1].geom, U, 0 - U, U, U + d[1], d[2] - U,
                          U + rise, width))

\* mb.add_wall_with_trim(x1, y1, x2, y2, z, height): not a method of v4
CallAddWall ==
    /\ variant # "v4"
    /\ \E d \in RunDeltas :
        MeshCall("add_wall_with_trim", <<U, 0 - U, U + d[1], d[2] - U, 0, 14 * U>>,
                 add_wall_with_trim(parts[1].geom, U, 0 - U, U + d[1], d[2] - U,
                                    0, 14 * U))

\* mb.add_box(x, y, z, w, d, h)
CallAddBox ==
    \E a \in BoxArgs :
        MeshCall("add_box", a,
                 add_box(parts[1].geom, a[1], a[2], a[3], a[4], a[5], a[6]))

\* mb.add_tapered_shell(base_w, base_d, top_w, top_d, height, thick, z_base)
CallAddShell ==
    \E a \in ShellArgs :
        MeshCall("add_tapered_shell", a,
                 add_tapered_shell(parts[1].geom, a[1], a[2], a[3], a[4], a[5],
                                   a[6], a[7]))

\* height, number of bands and trim height of the walls with given bands
BandArgs ==
    { <<14 * U, 3, Mul(U, 800)>>, <<14 * U, 1, Mul(U, 800)>>,
      <<3 * U, 1, Mul(U, 800)>>, <<3 * U, 3, Mul(U, 800)>>,
      <<12 * U, 2, 2 * U>>, <<12 * U, 0, 2 * U>> }

\* mb.add_wall_with_trim(x1, y1, x2, y2, z, height, thick, ..., num_bands)
CallAddWallBands ==
    /\ variant # "v4"
    /\ \E a \in BandArgs, z \in {0, 2 * U} :
        \* trim_h is the constant 0.8 in v7 and a parameter in v6
        /\ variant = "v7" => a[3] = Mul(U, 800)
        /\ MeshCall("add_wall_with_trim",
                    <<U, 0 - U, U, 9 * U, z, a[1], a[2], a[3]>>,
                    add_wall_with_bands(parts[1].geom, U, 0 - U, U, 9 * U, z,
                                        a[1], a[2], a[3]))

NextMesh ==
    \/ \E v \in MeshVariants : NewBuilder(v)
    \/ CallAddRamp
    \/ CallAddWall
    \/ CallAddWallBands
    \/ CallAddBox
    \/ CallAddShell

SpecMesh == Init /\ [][NextMesh]_vars

---------------------------------------------------------------------------
(* Properties. *)

\* the room layout of the run is complete (generate_layout has returned)
LayoutDone == variant = "v4" /\ pc \in {"exterior", "interior", "ramps", "ramps_loop",
                                        "entrances", "done"}

\* the overrides have been applied: cfg is the Config the generator works with
ConfigFixed == pc \notin {"idle", "overrides"}

\* the call left every Config field but style, seed and the level count (with
\* the height that follows from it) at its default
DefaultRequest == request.kwargs = <<>> /\ request.num_levels \in 2..6

Ids(rs) == {rs[i].id : i \in 1..Len(rs)}
ConnectionsOf(rs, id) ==
    UNION {SeqToSet(rs[i].connections) : i \in {k \in 1..Len(rs) : rs[k].id = id}}

RECURSIVE ReachableFrom(_, _)
\* the ids a breadth-first search over connections reaches from the ids S
ReachableFrom(rs, S) ==
    LET N == S \cup UNION {ConnectionsOf(rs, id) : id \in S}
    IN  IF N = S THEN S ELSE ReachableFrom(rs, N)

GroundMainHall(rs) ==
    {rs[i].id : i \in {k \in 1..Len(rs) : rs[k].level = 0 /\ rs[k].room_type = "main_hall"}}

\* C1: with the default Config and 2..6 levels, once generate_layout has
\* returned, every room is reachable from the level-0 main hall by following
\* connections.
C1_AllRoomsReachable ==
    (LayoutDone /\ DefaultRequest)
        => Ids(rooms) \subseteq ReachableFrom(rooms, GroundMainHall(rooms))

\* the id of the j-th room is in the connections of the i-th
Connected(rs, i, j) ==
    \E k \in 1..Len(rs[i].connections) : rs[i].connections[k] = rs[j].id

\* C2: connections are symmetric after every connect step and in the final
\* graph: B.id is in A.connections exactly when A.id is in B.connections.
C2_ConnectionsSymmetric ==
    \A i, j \in 1..Len(rooms) : Connected(rooms, i, j) <=> Connected(rooms, j, i)

\* a finished layout with connections inside levels and across levels
C2_Witness ==
    /\ LayoutDone
    /\ \E i, j \in 1..Len(rooms) :
          /\ rooms[i].level # rooms[j].level
          /\ rooms[j].id \in SeqToSet(rooms[i].connections)
    /\ \E i, j \in 1..Len(rooms) :
          /\ i # j
          /\ rooms[i].level = rooms[j].level
          /\ rooms[j].id \in SeqToSet(rooms[i].connections)

\* C3: the i-th room created has id i (counting from 0), room_id_counter is
\* the number of rooms, and no two rooms share an id.
C3_IdsSequential ==
    /\ room_id_counter = Len(rooms)
    /\ \A i \in 1..Len(rooms) : rooms[i].id = i - 1
    /\ \A i, j \in 1..Len(rooms) : rooms[i].id = rooms[j].id => i = j

\* several rooms have been created and a floor builder is still running
C3_Witness == pc = "floor" /\ Len(rooms) >= 12

\* C4: two runs with the same Config and seed make the same topology choices
\* in the same order and build the same rooms with the same connections,
\* whatever the runs in between left behind.
C4_SameSeedSameResult ==
    /\ \A a, b \in log : a.key = b.key => a.result = b.result
    /\ pc = "done" => \A a \in log : a.key = RunKey => a.result = RunResult

\* a run of the seeded generator has finished whose Config and seed an
\* earlier run had, after a run in between re-seeded the process-wide
\* generator, and it chose what the earlier one chose
C4_Witness ==
    /\ pc = "done"
    /\ variant = "v7"
    /\ grng # 0
    /\ \E a \in log : a.key = RunKey /\ a.result = RunResult
    /\ \E b \in log : b.key.variant = "v4"

NonPositiveDimension(c) ==
    \/ c.base_width <= 0
    \/ c.base_depth <= 0
    \/ c.base_height <= 0
    \/ c.level_height <= 0

\* the request asks for what the configuration rules exclude
InvalidRequest ==
    \/ request.num_levels \notin 2..6
    \/ cfg.num_levels \notin 2..6
    \/ NonPositiveDimension(cfg)
    \/ cfg.wall_taper >= Half(PerMille)

\* C5: a request with a non-positive dimension, a wall taper of 0.5 or more,
\* or a level count outside 2..6 is rejected: no mesh part is ever built for it.
C5_InvalidRejected == (ConfigFixed /\ InvalidRequest) => parts = <<>>

C7_EnvelopeMonotone ==
    (ConfigFixed /\ cfg.wall_taper >= 0 /\ cfg.base_height > 0)
        => /\ \A i, j \in 1..Len(levels) :
                 levels[i].z <= levels[j].z
                     => /\ levels[j].avail_w <= levels[i].avail_w
                        /\ levels[j].avail_d <= levels[i].avail_d
           /\ \A i \in 1..Len(levels) :
                 levels[i].z <= cfg.base_height
                     => /\ AvailableWidth(cfg, cfg.base_height) <= levels[i].avail_w
                        /\ AvailableDepth(cfg, cfg.base_height) <= levels[i].avail_d

\* three levels or more were laid out under a positive taper, each strictly
\* narrower than the one below
C7_Witness ==
    /\ cfg.wall_taper > 0
    /\ Len(levels) >= 3
    /\ \A i \in 1..(Len(levels) - 1) :
          /\ levels[i].z < levels[i + 1].z
          /\ levels[i + 1].avail_w < levels[i].avail_w
          /\ levels[i + 1].avail_d < levels[i].avail_d

\* C8: a Config with positive dimensions and 0 <= wall_taper < 0.5 has a
\* positive interior width and depth at every level's floor height and at
\* z = base_height.
C8_EnvelopePositive ==
    (ConfigFixed /\ ~NonPositiveDimension(cfg)
       /\ cfg.wall_taper >= 0 /\ cfg.wall_taper < Half(PerMille))
        => /\ \A l \in 0..(cfg.num_levels - 1) :
                 /\ AvailableWidth(cfg, FloorZ(cfg, l)) > 0
                 /\ AvailableDepth(cfg, FloorZ(cfg, l)) > 0
           /\ AvailableWidth(cfg, cfg.base_height) > 0
           /\ AvailableDepth(cfg, cfg.base_height) > 0

\* C9: when the ramp loop is over there are exactly num_levels - 1 ramps, one
\* for each level 0 .. num_levels - 2 in order, whatever the ramp style; and
\* get_ramp_positions gives coordinates for every such level of a drawn style.
C9_OneRampPerLevel ==
    (pc \in {"entrances", "done"} /\ cfg.num_levels >= 1)
        => /\ Len(ramps) = cfg.num_levels - 1
           /\ \A i \in 1..Len(ramps) : ramps[i].level = i - 1
           /\ Len(parts[Len(parts) - (IF pc = "done" THEN 1 ELSE 0)].geom)
                 = cfg.num_levels - 1
           /\ variant = "v7"
                 => \A l \in 0..(cfg.num_levels - 2) :
                       get_ramp_positions(cfg, layout, l) # <<>>

\* a run of the seeded generator with six levels has built its ramps
C9_Witness ==
    /\ pc = "done"
    /\ variant = "v7"
    /\ cfg.num_levels = 6
    /\ Len(ramps) = 5

\* C10: the ramp of level L starts at the floor height of level L and ends
\* at the floor height of level L + 1.
C10_RampJoinsFloors ==
    \A i \in 1..Len(ramps) :
        /\ ramps[i].ramp[4] = FloorZ(cfg, ramps[i].level)
        /\ ramps[i].ramp[7] = FloorZ(cfg, ramps[i].level + 1)

\* the run of the ramps of a generation: rise / tan(angle), the angle being
\* cfg.ramp_angle in v4 and the literal 28 in v7
RunOfRamps ==
    Mul(cfg.level_height, Cot(IF variant = "v4" THEN cfg.ramp_angle ELSE 28))

\* C11: every inter-level ramp rises exactly one level_height, and its
\* horizontal projection has the length of the one run value
\* rise / tan(angle), whatever the level and the ramp style.
C11_RiseAndRun ==
    \A i \in 1..Len(ramps) :
        LET r == ramps[i].ramp
        IN  /\ r[7] - r[4] = cfg.level_height
            /\ Length(r[5] - r[2], r[6] - r[3]) = RunOfRamps

\* the corner style has placed ramps in all four corners
C11_Witness ==
    /\ pc = "entrances"
    /\ variant = "v7"
    /\ layout.ramp_style = "corner"
    /\ Len(ramps) >= 4


\* the horizontal distance between the end points of a ramp or wall call
HorizontalRun(c) ==
    IF c.op = "add_ramp"
    THEN Length(c.args[4] - c.args[1], c.args[5] - c.args[2])
    ELSE IF c.op = "add_wall_with_trim"
    THEN Length(c.args[3] - c.args[1], c.args[4] - c.args[2])
    ELSE Eps

Degenerate(c) == HorizontalRun(c) < Eps

Proper(c) == ~Degenerate(c)

\* the tag of the geometry a builder call adds
TagOf(c) ==
    CASE c.op = "add_ramp" -> "ramp"
      [] c.op = "add_wall_with_trim" -> "wall"
      [] c.op = "add_box" -> "box"
      [] OTHER -> "shell"

\* C12: a ramp call whose end points are horizontally less than 0.01 apart
\* (whatever its z values and width) and a wall call whose run is shorter
\* than 0.01 leave the builder's accumulated geometry as it was, and the
\* calls made after them add their geometry as usual: the geometry of a
\* builder is, in order, what its non-degenerate calls added and nothing else.
C12_DegenerateNoOp ==
    pc = "mesh" =>
        LET g == parts[1].geom
            made == SelectSeq(calls, Proper)
        IN  /\ Len(g) = Len(made)
            /\ \A i \in 1..Len(g) :
                   /\ g[i][1] = TagOf(made[i])
                   /\ SubSeq(g[i], 2, Len(g[i])) = made[i].args

\* a degenerate ramp call with a rise, then a call that added its geometry
C12_Witness ==
    /\ pc = "mesh"
    /\ Len(calls) = 2
    /\ calls[1].op = "add_ramp"
    /\ Degenerate(calls[1])
    /\ calls[1].args[6] # calls[1].args[3]
    /\ Len(parts[1].geom) = 1
    /\ parts[1].geom[1][1] = "wall"

\* the edges of a face, each in the direction the face runs through it
DirectedEdges(f) == { <<f[i], f[(i % Len(f)) + 1]>> : i \in 1..Len(f) }

\* how many faces of s run through the edge from a to b
FacesThrough(s, a, b) ==
    Cardinality({ k \in 1..Len(s.faces) : <<a, b>> \in DirectedEdges(s.faces[k]) })

\* 8 vertices, 6 quadrilateral faces, and every edge in exactly two faces
\* that run through it in opposite directions
ClosedManifold(s) ==
    /\ Len(s.verts) = 8
    /\ Len(s.faces) = 6
    /\ \A k \in 1..6 :
           /\ Len(s.faces[k]) = 4
           /\ \A i \in 1..4 : s.faces[k][i] \in 0..7
           /\ Cardinality(DirectedEdges(s.faces[k])) = 4
           /\ \A e \in DirectedEdges(s.faces[k]) :
                  /\ e[1] # e[2]
                  /\ FacesThrough(s, e[1], e[2]) = 1
                  /\ FacesThrough(s, e[2], e[1]) = 1

\* C13: every solid emitted by the box builder, by the tapered-box builder
\* and as the body of a ramp has 8 vertices and 6 quadrilateral faces, every
\* edge shared by exactly two faces that traverse it in opposite directions;
\* the outer and the inner frustum of a shell each satisfy this on their own.
C13_SolidsClosed ==
    pc = "mesh" =>
        \A i \in 1..Len(parts[1].geom) :
            LET ss == SolidsOf(variant, parts[1].geom[i])
            IN  \A k \in 1..Len(ss) : ClosedManifold(ss[k])

\* a builder of v4 holding a rising ramp and a shell (two frusta, the inner
\* one inverted)
C13_Witness ==
    /\ pc = "mesh"
    /\ variant = "v4"
    /\ Len(parts[1].geom) = 2
    /\ parts[1].geom[1][1] = "ramp"
    /\ parts[1].geom[1][7] # parts[1].geom[1][4]
    /\ parts[1].geom[2][1] = "shell"
    /\ Len(SolidsOf(variant, parts[1].geom[2])) = 2

\* the shells of the exterior part, once _build_exterior has run
ExteriorShells == IF pc # "mesh" /\ Len(parts) >= 1 THEN parts[1].geom ELSE <<>>

ExteriorBuilt == pc # "mesh" /\ Len(parts) >= 1

\* shells stacked without gap from z = 0 to base_height, each one smaller
\* in footprint than the one below it
StackedShrinking(ss, height) ==
    /\ ss[1][8] = 0
    /\ ss[Len(ss)][8] + ss[Len(ss)][6] = height
    /\ \A i \in 1..(Len(ss) - 1) :
           /\ ss[i + 1][8] = ss[i][8] + ss[i][6]
           /\ ss[i + 1][2] < ss[i][2]
           /\ ss[i + 1][3] < ss[i][3]

\* C14: in every version of the composer the exterior follows cfg.style:
\* pyramid is exactly one tapered shell; stepped is a stack of more than one
\* shell, shrinking with height and contiguous in z from 0 to base_height;
\* tower is exactly two shells, a wide base and a narrower tower that starts
\* where the base ends.  (Stated for footprints of positive size.)
C14_ExteriorByStyle ==
    (ExteriorBuilt /\ ~NonPositiveDimension(cfg)) =>
        LET ss == ExteriorShells
        IN  /\ \A i \in 1..Len(ss) : ss[i][1] = "shell"
            /\ cfg.style = "pyramid" => Len(ss) = 1
            /\ cfg.style = "stepped" =>
                   Len(ss) > 1 /\ StackedShrinking(ss, cfg.base_height)
            /\ cfg.style = "tower" =>
                   /\ Len(ss) = 2
                   /\ ss[1][8] = 0
                   /\ ss[2][8] = ss[1][8] + ss[1][6]
                   /\ ss[2][2] < ss[1][2]
                   /\ ss[2][3] < ss[1][3]

\* the extent of a solid along coordinate k (1 = x, 2 = y, 3 = z)
CoordsOf(s, k) == { s.verts[i][k] : i \in 1..Len(s.verts) }
Lowest(S) == CHOOSE a \in S : \A b \in S : a <= b
Highest(S) == CHOOSE a \in S : \A b \in S : b <= a
Extent(s, k) == Highest(CoordsOf(s, k)) - Lowest(CoordsOf(s, k))

\* rail s of the axis-parallel ramp e is long in the ramp's direction, spans
\* the ramp's length (to one model unit) and lies along a side edge of it
RailAlongSide(e, s) ==
    LET dx == e[5] - e[2]
        dy == e[6] - e[3]
        along == IF dx = 0 THEN 2 ELSE 1
        across == 3 - along
        centre == e[1 + across]
        hw == Half(e[8])
    IN  /\ Extent(s, along) \in (Length(dx, dy) - 1)..(Length(dx, dy) + 1)
        /\ Extent(s, across) < Extent(s, along)
        /\ \/ Lowest(CoordsOf(s, across)) = centre - hw
           \/ Highest(CoordsOf(s, across)) = centre + hw
        /\ Lowest(CoordsOf(s, across)) >= centre - hw
        /\ Highest(CoordsOf(s, across)) <= centre + hw

\* the ramps built so far that run along x or along y and carry rails
RailedRamps ==
    { e \in UNION { SeqToSet(parts[p].geom) : p \in 1..Len(parts) } :
        /\ e[1] = "ramp"
        /\ (e[5] = e[2]) # (e[6] = e[3])
        /\ RailsOf(variant, e) # <<>> }

\* C15: every non-degenerate ramp that carries edge rails, whichever way it
\* runs (along x or along y, in either sense), has exactly two rails, each
\* with its long dimension parallel to the ramp's direction, spanning the
\* ramp's length along one of its two side edges.
C15_RailsAlongRamp ==
    pc # "mesh" =>
        \A e \in RailedRamps :
            LET rails == RailsOf(variant, e)
            IN  /\ Len(rails) = 2
                /\ \A k \in 1..2 : RailAlongSide(e, rails[k])
                /\ Lowest(CoordsOf(rails[1], IF e[5] = e[2] THEN 1 ELSE 2))
                       # Lowest(CoordsOf(rails[2], IF e[5] = e[2] THEN 1 ELSE 2))

\* the upper-levels part of v6 and v7 (the fourth one built), once created
UpperGeom == IF pc # "mesh" /\ Len(parts) >= 4 THEN parts[4].geom ELSE <<>>

\* the balconies emitted at floor height z, by their place in the part
BalconiesAt(z) ==
    { k \in 1..Len(UpperGeom) : UpperGeom[k][1] = "balcony" /\ UpperGeom[k][4] = z }

\* the side of the building a balcony at (x, y) stands on
SideOf(e) ==
    CASE e[2] = 0 /\ e[3] > 0 -> "north"
      [] e[2] = 0 /\ e[3] < 0 -> "south"
      [] e[3] = 0 /\ e[2] > 0 -> "east"
      [] e[3] = 0 /\ e[2] < 0 -> "west"
      [] e[2] > 0 /\ e[3] > 0 -> "north-east"
      [] e[2] < 0 /\ e[3] > 0 -> "north-west"
      [] e[2] > 0 /\ e[3] < 0 -> "south-east"
      [] e[2] < 0 /\ e[3] < 0 -> "south-west"
      [] OTHER -> "centre"

SidesAt(z) == { SideOf(UpperGeom[k]) : k \in BalconiesAt(z) }

\* the ring platform is too small at the level recorded as L
RingTooSmall(L) ==
    \/ Half(L.avail_w - cfg.atrium_width) - 2 * U < 4 * U
    \/ Half(L.avail_d - cfg.atrium_depth) - 2 * U < 4 * U

\* C16: the balconies of a level follow the layout's balcony configuration:
\* none when the ring platform's width or depth is below 4; otherwise four
\* for full_ring, two opposing ones (north and south on even levels, east
\* and west on odd ones), one for single (its side given by the level
\* modulo 4), four for corners; every balcony has a strictly positive width
\* and depth.
C16_BalconyLayout ==
    (variant = "v7" /\ pc # "mesh") =>
        \A i \in 1..Len(levels) :
            LET L == levels[i]
                B == BalconiesAt(L.z)
                S == SidesAt(L.z)
            IN  /\ RingTooSmall(L) => B = {}
                /\ ~RingTooSmall(L) =>
                       CASE layout.balcony_config = "full_ring" ->
                              Cardinality(B) = 4 /\ S = {"north", "south", "east", "west"}
                         [] layout.balcony_config = "opposing" ->
                              /\ Cardinality(B) = 2
                              /\ S = IF L.level % 2 = 0 THEN {"north", "south"}
                                     ELSE {"east", "west"}
                         [] layout.balcony_config = "single" ->
                              /\ Cardinality(B) = 1
                              /\ \A j \in 1..Len(levels) :
                                     ~RingTooSmall(levels[j]) =>
                                         ((levels[j].level % 4 = L.level % 4)
                                              <=> (SidesAt(levels[j].z) = S))
                         [] layout.balcony_config = "corners" ->
                              /\ Cardinality(B) = 4
                              /\ S = {"north-east", "north-west", "south-east", "south-west"}
                         [] OTHER -> FALSE
                /\ \A k \in B : UpperGeom[k][5] > 0 /\ UpperGeom[k][6] > 0

\* a run of v7 with the single configuration in which the lower levels got
\* their balcony and a higher level, too narrow, got none
C16_Witness ==
    /\ variant = "v7"
    /\ pc = "ramps"
    /\ layout.balcony_config = "single"
    /\ \E i \in 1..Len(levels) : RingTooSmall(levels[i]) /\ BalconiesAt(levels[i].z) = {}
    /\ \E i \in 1..Len(levels) : ~RingTooSmall(levels[i]) /\ BalconiesAt(levels[i].z) # {}

\* the railing of balcony e stands on the side of e nearer the middle of the
\* building, where the void is
RailFacesVoid(e) ==
    LET r == BalconyRail(e)
    IN  /\ e[1 + r[1]] # 0
        /\ Abs(r[2]) < Abs(e[1 + r[1]])

\* C17: every balcony the composer emits has its railing on exactly one
\* side, the side facing the interior void: a north balcony is railed on its
\* south side, a south one on its north side, an east one on its west side
\* and a west one on its east side.
C17_RailFacesVoid ==
    \A k \in 1..Len(UpperGeom) :
        UpperGeom[k][1] = "balcony" =>
            /\ UpperGeom[k][7] \in {"south", "north", "east", "west"}
            /\ RailFacesVoid(UpperGeom[k])

\* the entrances part of v7 (the sixth one built), once built
EntranceGeom == IF pc = "done" /\ variant = "v7" THEN parts[6].geom ELSE <<>>

EntranceRamps == { k \in 1..Len(EntranceGeom) : EntranceGeom[k][1] = "ramp" }

EntrancePlatforms == { k \in 1..Len(EntranceGeom) : EntranceGeom[k][1] = "platform" }

\* the side of the building an entrance ramp starts on
FacingOf(e) ==
    CASE e[2] = 0 /\ e[3] < 0 -> "south"
      [] e[2] = 0 /\ e[3] > 0 -> "north"
      [] e[3] = 0 /\ e[2] < 0 -> "west"
      [] e[3] = 0 /\ e[2] > 0 -> "east"
      [] OTHER -> "none"

\* ramp e starts on the ground outside the exterior wall line of its side
\* and ends at the entrance height inside it, on the same side
CrossesWall(e) ==
    LET entrance_z == Mul(cfg.level_height, 350)
        axis == IF e[2] = 0 THEN 2 ELSE 1
        half == IF axis = 2 THEN Half(cfg.base_depth) ELSE Half(cfg.base_width)
        start == e[1 + axis]
        end == e[4 + axis]
    IN  /\ e[4] = 0
        /\ e[7] = entrance_z
        /\ Abs(start) > half - TaperAt(cfg, 0)
        /\ Abs(end) < half - TaperAt(cfg, entrance_z)
        /\ (start < 0) = (end < 0)
        /\ e[4 + (3 - axis)] = e[1 + (3 - axis)]

\* C18: the entrance layout yields at least one entrance (two for
\* north_south, four for all_sides, one for single, two for diagonal) with
\* pairwise distinct facing directions; every entrance ramp starts at z = 0
\* outside the exterior wall line on its facing side and ends at the
\* entrance height inside it; every entrance has exactly one landing
\* platform.  (Stated for footprints of positive size.)
C18_EntranceLayout ==
    (pc = "done" /\ variant = "v7" /\ ~NonPositiveDimension(cfg)) =>
        LET g == EntranceGeom
            n == Cardinality(EntranceRamps)
        IN  /\ n >= 1
            /\ n = CASE layout.entrance_config = "north_south" -> 2
                     [] layout.entrance_config = "all_sides" -> 4
                     [] layout.entrance_config = "single" -> 1
                     [] layout.entrance_config = "diagonal" -> 2
                     [] OTHER -> 0
            /\ \A k \in EntranceRamps :
                   /\ FacingOf(g[k]) # "none"
                   /\ CrossesWall(g[k])
                   /\ \A j \in EntranceRamps : j # k => FacingOf(g[j]) # FacingOf(g[k])
                   /\ k + 1 \in EntrancePlatforms
                   /\ g[k + 1][4] = g[k][7]
            /\ Cardinality(EntrancePlatforms) = n
            /\ Len(g) = 2 * n

\* a finished run of v7 with entrances on all four sides
C18_Witness ==
    /\ pc = "done"
    /\ variant = "v7"
    /\ ~NonPositiveDimension(cfg)
    /\ layout.entrance_config = "all_sides"
    /\ Cardinality(EntranceRamps) = 4

\* how many objects of the collection carry the name n
LinkedTimes(n) ==
    Cardinality({ k \in 1..Len(collection.objects) : collection.objects[k] = n })

\* every part created in the run has been finalized and linked exactly once
AllPartsFinalizedOnce ==
    \A i \in 1..Len(parts) :
        parts[i].finalized /\ LinkedTimes(parts[i].name) = 1

\* a step leaves every finalized part of the run as it is
FinalizedPartsKept ==
    \A i \in 1..Len(parts) :
        (parts[i].finalized /\ i <= Len(parts')) => parts'[i] = parts[i]

\* C19: every mesh part created during a run has been finalized and handed
\* to the collection exactly once when the run ends, and no geometry is
\* appended to a part after it was finalized.
C19_PartLifecycle ==
    /\ [](pc = "done" => AllPartsFinalizedOnce)
    /\ [][FinalizedPartsKept]_vars

\* the balconies, platforms and columns emitted at floor height z
FeaturesAt(z) ==
    { k \in 1..Len(UpperGeom) :
        /\ UpperGeom[k][1] \in {"balcony", "platform", "column"}
        /\ UpperGeom[k][4] = z }

\* C20: for every configuration the entry point accepts, whenever the ring
\* platform of an upper level would be less than 4 wide or deep (a zero or
\* negative available width included), the composer emits no balcony, no
\* platform and no column for that level, and the run goes on to its end.
C20_InfeasibleLevelOmitted ==
    (variant \in {"v6", "v7"} /\ pc \in {"upper_loop", "ramps", "ramps_loop",
                                         "entrances", "done"}
        /\ ~InvalidRequest) =>
        \A i \in 1..Len(levels) :
            RingTooSmall(levels[i]) => FeaturesAt(levels[i].z) = {}

\* the envelope record of the level a room of v4 stands on
EnvelopeOf(r) == CHOOSE L \in SeqToSet(levels) : L.level = r.level

\* room r lies inside the interior envelope of its level (doubled, to stay
\* in integers)
InsideEnvelope(r) ==
    /\ 2 * Abs(r.x) + r.width <= EnvelopeOf(r).avail_w
    /\ 2 * Abs(r.y) + r.depth <= EnvelopeOf(r).avail_d

\* C21: with the default Config and 2..6 levels, every room created by
\* InteriorLayout lies inside the interior envelope of its level:
\* |x| + width/2 <= avail_w/2 and |y| + depth/2 <= avail_d/2.
C21_RoomsInsideEnvelope ==
    (variant = "v4" /\ pc # "mesh" /\ DefaultRequest) =>
        \A i \in 1..Len(rooms) :
            (\E L \in SeqToSet(levels) : L.level = rooms[i].level)
                /\ InsideEnvelope(rooms[i])

\* the shells of the exterior whose height range holds z
ShellsAround(z) ==
    { k \in 1..Len(ExteriorShells) :
        /\ ExteriorShells[k][8] <= z
        /\ z <= ExteriorShells[k][8] + ExteriorShells[k][6] }

\* half the inner width (k = 1) or depth (k = 2) of shell entry s at height
\* z: between the base corner and the top corner of its inner frustum
InnerHalfAt(s, z, k) ==
    LET inner == ShellSolidsV7(s[2], s[3], s[4], s[5], s[6], s[7], s[8])[2]
        low == inner.verts[3]
        high == inner.verts[7]
    IN  low[k] - (((low[k] - high[k]) * (z - low[3])) \div (high[3] - low[3]))

\* balcony entry e lies inside the inner face of a shell built around its
\* height
InsideShell(e) ==
    \E k \in ShellsAround(e[4]) :
        /\ Abs(e[2]) + Half(e[5]) <= InnerHalfAt(ExteriorShells[k], e[4], 1)
        /\ Abs(e[3]) + Half(e[6]) <= InnerHalfAt(ExteriorShells[k], e[4], 2)

\* C22: for every style, every balcony configuration and every upper level,
\* each balcony footprint emitted by the v7 composer lies inside the inner
\* face of the exterior shell the composer emitted for that style at that
\* level's height.
C22_BalconiesInsideShell ==
    (variant = "v7" /\ pc # "mesh" /\ ~InvalidRequest) =>
        \A k \in 1..Len(UpperGeom) :
            UpperGeom[k][1] = "balcony" => InsideShell(UpperGeom[k])

\* the place of the draw named n in the draws made so far (0: not made)
DrawPlace(n) ==
    IF \E k \in 1..Len(draws) : draws[k] = n
    THEN CHOOSE k \in 1..Len(draws) : draws[k] = n
    ELSE 0

\* the five topology choices were drawn, in their relative order
ChoicesInOrder ==
    /\ 0 < DrawPlace("corridor_config")
    /\ DrawPlace("corridor_config") < DrawPlace("column_pattern")
    /\ DrawPlace("column_pattern") < DrawPlace("ramp_style")
    /\ DrawPlace("ramp_style") < DrawPlace("balcony_config")
    /\ DrawPlace("balcony_config") < DrawPlace("entrance_config")

\* a step that draws from the run's stream is the construction of the
\* layout generator, before any part exists
DrawsOnlyAtConstruction ==
    (variant' = "v7" /\ Len(draws') > Len(draws)) => (draws = <<>> /\ parts = <<>>)

\* C23: all draws from the run's seeded stream happen during the
\* construction of LayoutGenerator, in one fixed order (corridor, column,
\* ramp, balcony, entrance configuration in that relative order), before the
\* first geometry is emitted; no composer step draws from the stream
\* afterwards.
C23_DrawsBeforeGeometry ==
    /\ []((variant = "v7" /\ parts # <<>> /\ pc # "mesh") => ChoicesInOrder)
    /\ [][DrawsOnlyAtConstruction]_vars

\* the horizontal end points and the horizontal start point of a ramp
HorizontalEnds(r) == <<r[2], r[3], r[5], r[6]>>
HorizontalStart(r) == <<r[2], r[3]>>

\* the period of the routing rule of a ramp style
RampPeriod(style) == IF style \in {"spiral", "corner"} THEN 4 ELSE 2

\* the side of the atrium a ramp runs along
RampSide(r) ==
    CASE r[2] = r[5] /\ r[2] > 0 -> "east"
      [] r[2] = r[5] /\ r[2] < 0 -> "west"
      [] r[3] = r[6] /\ r[3] > 0 -> "north"
      [] r[3] = r[6] /\ r[3] < 0 -> "south"
      [] OTHER -> "middle"

\* C24: ramp routing depends on the level only through level mod 4 for the
\* spiral and corner styles and through level mod 2 for the opposing and
\* central styles; for every style the ramps of two consecutive levels have
\* different horizontal start points; in the spiral style the four residues
\* place the ramp on four different sides of the atrium.
C24_RampRouting ==
    (variant = "v7" /\ pc # "mesh") =>
        \A i, j \in 1..Len(ramps) :
            LET a == ramps[i]
                b == ramps[j]
                p == RampPeriod(layout.ramp_style)
            IN  /\ a.level % p = b.level % p
                       => HorizontalEnds(a.ramp) = HorizontalEnds(b.ramp)
                /\ b.level = a.level + 1
                       => HorizontalStart(a.ramp) # HorizontalStart(b.ramp)
                /\ (layout.ramp_style = "spiral" /\ a.level % 4 # b.level % 4)
                       => /\ RampSide(a.ramp) # RampSide(b.ramp)
                          /\ RampSide(a.ramp) # "middle"

\* a spiral run of v7 whose ramps go once round the atrium and on
C24_Witness ==
    /\ variant = "v7"
    /\ pc = "entrances"
    /\ layout.ramp_style = "spiral"
    /\ Len(ramps) >= 5
    /\ ramps[5].level = ramps[1].level + 4

RECURSIVE TotalHeight(_)
TotalHeight(ss) == IF ss = <<>> THEN 0 ELSE Head(ss).h + TotalHeight(Tail(ss))

KindCount(ss, kind) == Cardinality({ k \in 1..Len(ss) : ss[k].kind = kind })

\* the sections ss of a wall of height H from z with n bands: n + 1 base
\* and n trim sections of positive height inside [z, z + H], no two
\* overlapping, filling it, alternating from a base at the bottom to a base
\* at the top
BandsInOrder(ss, z, H, n) ==
    /\ KindCount(ss, "base") = n + 1
    /\ KindCount(ss, "trim") = n
    /\ \A k \in 1..Len(ss) :
           /\ ss[k].h > 0
           /\ ss[k].z >= z
           /\ ss[k].z + ss[k].h <= z + H
           /\ ss[k].z = z => ss[k].kind = "base"
           /\ ss[k].z + ss[k].h = z + H => ss[k].kind = "base"
           /\ ss[k].z + ss[k].h < z + H =>
                  \E j \in 1..Len(ss) :
                      ss[j].z = ss[k].z + ss[k].h /\ ss[j].kind # ss[k].kind
    /\ \A j, k \in 1..Len(ss) :
           j # k => (ss[j].z + ss[j].h <= ss[k].z \/ ss[k].z + ss[k].h <= ss[j].z)
    /\ TotalHeight(ss) = H

\* C25: a wall run with n trim bands over a wall of height H starting at z
\* is emitted as n + 1 base sections and n trim sections whose vertical
\* intervals do not overlap, are contiguous, alternate base and trim from
\* the bottom, end with an untrimmed top slot and cover exactly [z, z + H];
\* no section lies below z or above z + H or has a non-positive height,
\* for every H, n and trim height the builder accepts.
C25_TrimBands ==
    pc = "mesh" =>
        \A i \in 1..Len(parts[1].geom) :
            LET e == parts[1].geom[i]
            IN  e[1] = "wall" =>
                    BandsInOrder(WallSections(e), e[6], e[7],
                                 IF Len(e) >= 9 THEN e[8] ELSE 3)

\* the room graph is complete: every level and the vertical pass have run
LayoutGenerated ==
    variant = "v4" /\ pc \notin {"idle", "overrides", "setup", "layout", "levels", "floor"}

RoomsAt(lvl) == { i \in 1..Len(rooms) : rooms[i].level = lvl }

KindAt(lvl, t) == { i \in RoomsAt(lvl) : rooms[i].room_type = t }

ConnectedTo(i, j) == \E k \in 1..Len(rooms[i].connections) : rooms[i].connections[k] = rooms[j].id

RECURSIVE ReachIn(_, _)
\* the rooms of S reachable from those of R along connections inside S
ReachIn(R, S) ==
    LET more == { j \in S \ R : \E i \in R : ConnectedTo(i, j) \/ ConnectedTo(j, i) }
    IN  IF more = {} THEN R ELSE ReachIn(R \cup more, S)

LevelConnected(lvl) ==
    LET S == RoomsAt(lvl)
    IN  S # {} /\ ReachIn({CHOOSE i \in S : TRUE}, S) = S

GroundStructure ==
    /\ Cardinality(KindAt(0, "main_hall")) = 1
    /\ KindAt(0, "corridor") # {}
    /\ KindAt(0, "side_chamber") # {}
    /\ KindAt(0, "equipment") # {}
    /\ \A i \in RoomsAt(0) :
           rooms[i].room_type \in {"main_hall", "corridor", "side_chamber", "equipment"}

MiddleStructure(lvl) ==
    /\ Cardinality(KindAt(lvl, "corridor")) = 4
    /\ Cardinality(KindAt(lvl, "side_chamber")) \in {0, 4}
    /\ \A i \in RoomsAt(lvl) : rooms[i].room_type \in {"corridor", "side_chamber"}

TopStructure(lvl) ==
    /\ Cardinality(KindAt(lvl, "main_hall")) = 1
    /\ Cardinality(KindAt(lvl, "balcony")) <= 2
    /\ Cardinality(KindAt(lvl, "equipment")) <= 2
    /\ \A i \in RoomsAt(lvl) : rooms[i].room_type \in {"main_hall", "balcony", "equipment"}

\* C26: in the room graph of v4, level 0 holds exactly one main hall plus
\* corridors, side chambers and equipment rooms; every middle level holds
\* exactly four ring corridors and either no or four side chambers; the top
\* level holds exactly one command room, at most two balconies and at most
\* two side alcoves; and the rooms of each level are connected by
\* connections among rooms of that level alone.
C26_LevelStructure ==
    LayoutGenerated =>
        /\ GroundStructure
        /\ \A lvl \in 1..(cfg.num_levels - 2) : MiddleStructure(lvl)
        /\ cfg.num_levels >= 2 => TopStructure(cfg.num_levels - 1)
        /\ \A lvl \in 0..(cfg.num_levels - 1) : LevelConnected(lvl)
        /\ \A i \in 1..Len(rooms) : rooms[i].level \in 0..(cfg.num_levels - 1)

\* the room graph of a run with a ground floor, a middle level with and one
\* without side chambers, and a top level with balconies or alcoves
C26_Witness ==
    /\ LayoutGenerated
    /\ \E a, b \in 1..(cfg.num_levels - 2) :
           /\ Cardinality(KindAt(a, "side_chamber")) = 4
           /\ Cardinality(KindAt(b, "side_chamber")) = 0
    /\ Cardinality(RoomsAt(0)) > 7
    /\ Cardinality(RoomsAt(cfg.num_levels - 1)) > 1

\* rooms i and j stand on adjacent levels with centres less than 8 apart
\* in both x and y
VerticallyClose(i, j) ==
    /\ Abs(rooms[i].level - rooms[j].level) = 1
    /\ Abs(rooms[i].x - rooms[j].x) < 8 * U
    /\ Abs(rooms[i].y - rooms[j].y) < 8 * U

TimesConnected(i, id) ==
    Cardinality({ k \in 1..Len(rooms[i].connections) : rooms[i].connections[k] = id })

\* in the finished graph rooms of different levels are connected exactly
\* when they are vertically close, and no room lists an id twice or its own
CrossLevelRule ==
    LayoutGenerated =>
        /\ \A i, j \in 1..Len(rooms) :
               rooms[i].level # rooms[j].level =>
                   (ConnectedTo(i, j) <=> VerticallyClose(i, j))
        /\ \A i, j \in 1..Len(rooms) : TimesConnected(i, rooms[j].id) <= 1
        /\ \A i \in 1..Len(rooms) : TimesConnected(i, rooms[i].id) = 0

\* the step of the vertical pass keeps the rooms and their attributes and
\* only appends to their connections
VerticalPassFrame ==
    (variant = "v4" /\ pc = "levels" /\ pc' = "exterior") =>
        /\ Len(rooms') = Len(rooms)
        /\ \A i \in 1..Len(rooms) :
               /\ [rooms'[i] EXCEPT !.connections = <<>>]
                      = [rooms[i] EXCEPT !.connections = <<>>]
               /\ Len(rooms'[i].connections) >= Len(rooms[i].connections)
               /\ SubSeq(rooms'[i].connections, 1, Len(rooms[i].connections))
                      = rooms[i].connections

\* C27: in the final room graph two rooms on different levels are connected
\* if and only if their levels differ by exactly one and their centres
\* differ by less than 8 in both x and y; the vertical-connection pass adds
\* no room, removes no connection, changes no attribute of a room other than
\* its connections, and records each connection at most once (no duplicate
\* id, no self-connection).
C27_CrossLevelRule == []CrossLevelRule /\ [][VerticalPassFrame]_vars

\* the finished graph has rooms on adjacent levels that the vertical pass
\* connected, rooms on adjacent levels it left apart, and rooms two levels
\* apart above one another
C27_Witness ==
    /\ LayoutGenerated
    /\ \E i, j \in 1..Len(rooms) :
           /\ rooms[j].level = rooms[i].level + 1
           /\ VerticallyClose(i, j) /\ ConnectedTo(i, j) /\ ConnectedTo(j, i)
    /\ \E i, j \in 1..Len(rooms) :
           /\ rooms[j].level = rooms[i].level + 1
           /\ ~VerticallyClose(i, j) /\ ~ConnectedTo(i, j)
    /\ \E i, j \in 1..Len(rooms) :
           /\ rooms[j].level = rooms[i].level + 2
           /\ rooms[i].x = rooms[j].x /\ rooms[i].y = rooms[j].y

\* the signed width and depth of a frustum at its base and at its top
\* (vertices 0..3 the base, 4..7 the top, counter-clockwise from -x, -y)
BaseSpan(s) == <<s.verts[3][1] - s.verts[1][1], s.verts[3][2] - s.verts[1][2]>>
TopSpan(s) == <<s.verts[7][1] - s.verts[5][1], s.verts[7][2] - s.verts[5][2]>>

\* the exterior is the single tapered shell of the pyramid
PyramidBuilt ==
    /\ ExteriorBuilt
    /\ variant = "v6" \/ cfg.style = "pyramid"

\* C28: the outer top width and depth of the pyramid shell are base_width -
\* 2*base_height*wall_taper and base_depth - 2*base_height*wall_taper (64,
\* 48 and 0.3 give 35.2), and the inner frustum of the hollow shell is the
\* outer one reduced by exactly twice the wall thickness at the base and at
\* the top.
C28_TaperArithmetic ==
    PyramidBuilt =>
        /\ Len(ExteriorShells) = 1
        /\ ExteriorShells[1][1] = "shell"
        /\ LET ss == SolidsOf(variant, ExteriorShells[1])
               outer == ss[1]
               inner == ss[2]
               t == ExteriorThickness(cfg)
               taper == Mul(cfg.base_height, cfg.wall_taper)
           IN  /\ Len(ss) = 2
               /\ BaseSpan(outer) = <<cfg.base_width, cfg.base_depth>>
               /\ TopSpan(outer) = <<cfg.base_width - 2 * taper,
                                     cfg.base_depth - 2 * taper>>
               /\ BaseSpan(inner) = <<BaseSpan(outer)[1] - 2 * t,
                                      BaseSpan(outer)[2] - 2 * t>>
               /\ TopSpan(inner) = <<TopSpan(outer)[1] - 2 * t,
                                     TopSpan(outer)[2] - 2 * t>>
               /\ (/\ cfg.base_width = 64 * U
                   /\ cfg.base_height = 48 * U
                   /\ cfg.wall_taper = 300) => TopSpan(outer)[1] = (352 * U) \div 10

\* the pyramid of width 64, height 48 and taper 0.3 has been built by v4
C28_Witness ==
    /\ PyramidBuilt
    /\ variant = "v4"
    /\ cfg.base_width = 64 * U
    /\ cfg.base_height = 48 * U
    /\ cfg.wall_taper = 300
    /\ ExteriorShells[1][4] = (352 * U) \div 10

\* the level count the entry point works with for the num_levels asked for
EffectiveLevels(n) == IF n < 2 THEN 2 ELSE IF n > 6 THEN 6 ELSE n

\* C29: for every generate_base call, whatever num_levels and overrides it
\* is given, the effective level count is max(2, min(6, num_levels)) and no
\* override changes it, and the floor height level*level_height +
\* floor_thickness of every level is strictly below the base_height of the
\* Config the generator works with.
C29_LevelsAndFloors ==
    (ConfigFixed /\ pc # "mesh") =>
        /\ cfg.num_levels = EffectiveLevels(request.num_levels)
        /\ \A lvl \in 0..(cfg.num_levels - 1) :
               lvl * cfg.level_height + cfg.floor_thickness < cfg.base_height

\* the names of the parts of the run that became objects, in their order
ObjectsOfRun ==
    LET done == SelectSeq(parts, LAMBDA p : p.finalized)
    IN  [i \in 1..Len(done) |-> done[i].name]

\* one collection of the name at most; from _setup_collection on it holds
\* the objects of the run under way and nothing else
CollectionOfRun ==
    /\ collection.duplicates = 0
    /\ pc \notin {"idle", "overrides", "setup", "mesh"} =>
           collection.exists /\ collection.objects = ObjectsOfRun

\* a step between two calls that is no call: the collection is gone after
\* it, and without a collection nothing is changed
ClearStep ==
    (pc = "idle" /\ pc' = "idle") =>
        /\ ~collection'.exists
        /\ collection'.objects = <<>>
        /\ ~collection.exists => collection' = collection
        /\ UNCHANGED <<variant, request, cfg, pending, rooms, room_id_counter, level,
                       plan, layout, rng, draws, grng, parts, levels, ramps, log, calls>>

\* C30: after any sequence of generate and clear operations at most one
\* collection FPSZ_Generated_Base exists; after a generate it holds exactly
\* the mesh parts of the most recent run, the earlier objects being removed
\* before the new run emits anything; after a clear it does not exist; and
\* a clear with nothing generated changes nothing.
C30_OneCollection == []CollectionOfRun /\ [][ClearStep]_vars

\* two runs have finished, the second after the first one's collection was
\* there or had been cleared, and a clear has removed the collection
C30_Witness ==
    /\ pc = "idle"
    /\ Cardinality(log) >= 2
    /\ ~collection.exists
=============================================================================
